---- MODULE Spec2Model ----
(***************************************************************************)
(* Cluster coordination of distributed-llm: the Resource Broadcaster       *)
(* (package agent), the console's Client Discovery (package tui) and the   *)
(* gossip Membership wrapper P2PNetwork (package network).                  *)
(*                                                                         *)
(* Each component has its own specification over the shared variable       *)
(* tuple; a component's specification leaves the other components' state   *)
(* untouched.                                                              *)
(***************************************************************************)
EXTENDS Integers, Sequences, FiniteSets, TLC

VARIABLES
    \* ---- Broadcaster (struct Broadcaster) ----
    bResources,     \* b.resources: the current snapshot (a version number)
    bListeners,     \* b.listeners: sequence of subscribed channels
    chanBuf,        \* contents of each subscriber channel (a bounded FIFO)
    bPc,            \* control point of every goroutine using the broadcaster
    bLoc,           \* locals of a delivery in progress: listeners copy, resourcesCopy, index
    ctxCancelled,   \* the context handed to Broadcaster.Start has been cancelled
    \* ---- Client Discovery (struct AgentDiscovery) ----
    dDocker,        \* config: dockerMode
    dK8s,           \* config: k8sNamespace is not empty
    dMode,          \* the branch Start took: "docker", "k8s" or "seed"; "none"
                    \* before Start
    dHasChan,       \* updateChan is not nil
    dSeeds,         \* seedNodes
    dStarted,       \* Start has been called
    dStopped,       \* Stop has returned at least once
    dMu,            \* d.mu: 0 when nobody holds it between steps, else the client
                    \* whose monitor sits inside removeAgent holding the write lock
    dClients,       \* d.clients: address -> client (0: no entry)
    dNodes,         \* d.nodes: address -> resources of the node (0: no entry)
    updateChan,     \* contents of the UI-update channel
    reach,          \* environment: the agent at an address answers RPCs
    cl,             \* the Client objects created so far: address and connection state
    mPc,            \* control point of the monitorAgent goroutine of each client
    tPc,            \* control point of the probing goroutines
    tLoc,           \* their locals
    \* ---- Membership (struct P2PNetwork, one per node) ----
    ml,             \* n.memberlist: "nil", a "running" list or one that was "shutdown"
    mem,            \* the members the node's memberlist knows (Members())
    mJoin,          \* how the last Start's join went: "noseeds", "failed",
                    \* "self" (only its own address answered) or "peer"
    mStopped,       \* Stop has shut a running list of the node down
    mLast,          \* the last event: "none" yet, "start:ok" (nil returned),
                    \* "start:err", "stop:" and what n.memberlist was when
                    \* Stop was called, or "gossip"
    mPanic,         \* some call has panicked
    mStarts,        \* number of memberlists created so far
    \* ---- package network: creation and the RPC servers ----
    crArgs,         \* the arguments of a NewP2PNetwork call
    crRes,          \* what the call returned: <<>> while it has not, else
                    \* <<r>> with r.net the pointer (<<>> is nil) and r.err
    \* ---- Client Discovery: what GetNodes and GetClient hand out ----
    qNode,          \* d.nodes[address]: the registry's node record
    qClientRef,     \* d.clients[address]: pointer to a Client, 0 if absent
    qGpu,           \* the backing arrays of GPU lists (one element each)
    qConn,          \* the Client objects: state of the connection
    qAlloc,         \* arrays and Clients allocated so far
    qRetNode,       \* the element of the slice a GetNodes call returned
    qRetClient,     \* the pointer a GetClient call returned, 0 if nil or none
    \* ---- package network: the unary RPCs of one agent's gRPC server ----
    srvNodes,       \* what network.GetNodes() returns: the member nodes
    rpcCall,        \* the last call: its method and its argument
    rpcResp,        \* the response of the last call
    \* ---- package network: one streaming RPC (StreamUpdates, StreamMetrics) ----
    metricsCollector, \* network.metricsCollector is set (not nil)
    stReq,          \* the request: method, update types, interval in seconds
    stInterval,     \* the ticker's interval in seconds, 0 without a ticker
    stPc,           \* position of the handler
    stI,            \* StreamUpdates: index of the update type being handled
    stUpdate,       \* StreamUpdates: the ClusterUpdate being filled
    stOut,          \* the messages sent while handling the latest tick
    stTicks,        \* ticks the handler has received
    stClock,        \* seconds since the ticker was created
    stTickReady,    \* a tick waits in ticker.C
    stCancelled,    \* the stream's context is done
    stErr,          \* what the handler returned
    \* ---- Broadcaster: the values it hands out, its node registry, its reports ----
    vResources,     \* b.resources
    vNodes,         \* b.nodes
    vListeners,     \* b.listeners
    vCollector,     \* b.metricsCollector is set (not nil)
    vGpu,           \* the backing arrays of GPU lists (one element each): MemoryMB
    vChan,          \* contents of the subscriber's channel
    vHeld,          \* the value a caller got last: the ResourceInfo GetResources
                    \* returned or the channel delivered, or the slice GetNodes returned
    vCall,          \* the calls in progress: what each goroutine copied under the lock
    vReports,       \* the metrics collector: the resource updates it has recorded,
                    \* its connection gauge and the last message it recorded
    vCalls,         \* the calls made so far
    vAccess,        \* the reads and writes of a shared field made so far while its
                    \* owner's lock was not held
    \* package models
    pNode,          \* the Node IsHealthy was last called on
    pNow,           \* the time of that call, in minutes
    pHealthy,       \* what the call returned
    pResources,     \* the ResourceInfo last encoded
    pWire,          \* its wire form, pb.ResourceInfo
    pDecoded        \* the ResourceInfo decoded from the wire form

bVars == <<bResources, bListeners, chanBuf, bPc, bLoc, ctxCancelled>>

dVars == <<dDocker, dK8s, dMode, dHasChan, dSeeds, dStarted, dStopped, dMu, dClients, dNodes,
           updateChan, reach, cl, mPc, tPc, tLoc>>

mVars == <<ml, mem, mJoin, mStopped, mLast, mPanic, mStarts>>

nVars == <<crArgs, crRes>>

qVars == <<qNode, qClientRef, qGpu, qConn, qAlloc, qRetNode, qRetClient>>

rVars == <<srvNodes, rpcCall, rpcResp>>

sVars == <<metricsCollector, stReq, stInterval, stPc, stI, stUpdate, stOut, stTicks,
           stClock, stTickReady, stCancelled, stErr>>

vVars == <<vResources, vNodes, vListeners, vCollector, vGpu, vChan, vHeld,
           vCall, vReports, vCalls, vAccess>>

pVars == <<pNode, pNow, pHealthy, pResources, pWire, pDecoded>>

vars == <<bVars, dVars, mVars, nVars, qVars, rVars, sVars, vVars, pVars>>

-----------------------------------------------------------------------------
(* Bounds of the model *)

MaxRes == 1          \* resource snapshots passed to UpdateResources are 1..MaxRes
MaxListeners == 2    \* Subscribe is called at most this many times
ChanCap == 1         \* capacity of the larger subscriber channel
MaxClients == 2      \* Client objects alive at a time
UpdCap == 1          \* capacity of the UI-update channel
MaxStarts == 3       \* memberlists created in one run
MaxIdLen == 2        \* characters in a node ID
MaxAllocs == 3       \* GPU arrays and Clients allocated for one registry entry
MaxKnown == 2        \* IDs in the known-nodes list of a DiscoverNodes request
MaxTypes == 2        \* update types in a StreamUpdates request
MaxTime == 5         \* seconds a streaming call is followed
MaxCalls == 2        \* calls of UpdateResources, of AddNode and ticks followed
MaxMinutes == 12     \* the clock and LastSeen run over 0..MaxMinutes minutes
MaxGpus == 2         \* GPUs in a ResourceInfo

\* the largest port number
MaxPort == 65535

-----------------------------------------------------------------------------
(* Broadcaster *)

Chans == {"ch1", "ch2"}
\* make(chan models.ResourceInfo, n): ch1 has room for one value, as in
\* TestRealBroadcasterSubscribeWithFullChannel, ch10 for ten, as in
\* TestRealBroadcasterUpdateResources
Cap(ch) == IF ch = "ch1" THEN 1 ELSE IF ch = "ch10" THEN 10 ELSE ChanCap

Ticker == "ticker"
Callers == {"u1"}
BTasks == Callers \cup {Ticker}

\* GetResourceInfo() at construction is snapshot 0
ResVals == 0..MaxRes

NoLoc == [listeners |-> <<>>, res |-> 0, i |-> 0,
          dropped |-> FALSE, delivered |-> FALSE, afterDrop |-> FALSE]

InitBroadcaster ==
    /\ bResources = 0
    /\ bListeners = <<>>
    /\ chanBuf = [ch \in Chans |-> <<>>]
    /\ bPc = [t \in BTasks |-> IF t = Ticker THEN "off" ELSE "idle"]
    /\ bLoc = [t \in BTasks |-> NoLoc]
    /\ ctxCancelled = FALSE

\* select { case listener <- v: default: } on a buffered channel
TrySend(buf, cap, v) ==
    IF Len(buf) < cap THEN Append(buf, v) ELSE buf

\* where a goroutine goes when its delivery loop is over
Rest(t) == IF t = Ticker THEN "wait" ELSE "idle"

\* the locals after one select: the loop index moves on and, once the loop is
\* over, the copies are dead (only what the call did is remembered)
Advance(loc, full, last) ==
    [listeners |-> IF last THEN <<>> ELSE loc.listeners,
     res       |-> IF last THEN 0 ELSE loc.res,
     i         |-> IF last THEN 0 ELSE loc.i + 1,
     dropped   |-> loc.dropped \/ full,
     delivered |-> loc.delivered \/ ~full,
     afterDrop |-> loc.afterDrop \/ (loc.dropped /\ ~full)]

\* entering the delivery loop with the copies taken under the lock
BeginDelivery(t, r) ==
    /\ bLoc' = [bLoc EXCEPT ![t] = IF bListeners = <<>> THEN NoLoc
                                    ELSE [listeners |-> bListeners, res |-> r, i |-> 1,
                                          dropped |-> FALSE, delivered |-> FALSE,
                                          afterDrop |-> FALSE]]
    /\ bPc' = [bPc EXCEPT ![t] = IF bListeners = <<>> THEN Rest(t) ELSE "send"]

\* UpdateResources, the critical section: replace the snapshot, copy the listeners
UpdateResources(t, r) ==
    /\ t \in Callers
    /\ bPc[t] = "idle"
    /\ bResources' = r
    /\ BeginDelivery(t, r)
    /\ UNCHANGED <<bListeners, chanBuf, ctxCancelled, dVars, mVars, nVars, qVars, rVars, sVars, vVars, pVars>>

\* broadcast(), the critical section under the read lock, run on a tick
BroadcastTick ==
    /\ bPc[Ticker] = "wait"
    /\ BeginDelivery(Ticker, bResources)
    /\ UNCHANGED <<bResources, bListeners, chanBuf, ctxCancelled, dVars, mVars, nVars, qVars, rVars, sVars, vVars,
                   pVars>>

\* one iteration of `for _, listener := range listeners { select {...} }`
DeliverNext_Blocking(t) ==
    /\ bPc[t] = "send"
    /\ LET loc == bLoc[t]
           ch == loc.listeners[loc.i]
           full == Len(chanBuf[ch]) >= Cap(ch)
       IN /\ ~full
          /\ chanBuf' = [chanBuf EXCEPT ![ch] = Append(@, loc.res)]
          /\ bLoc' = [bLoc EXCEPT ![t] = Advance(loc, FALSE, loc.i = Len(loc.listeners))]
          /\ bPc' = [bPc EXCEPT ![t] = IF loc.i = Len(loc.listeners) THEN Rest(t) ELSE "send"]
    /\ UNCHANGED <<bResources, bListeners, ctxCancelled, dVars, mVars, nVars, qVars, rVars, sVars, vVars, pVars>>

DeliverNext_StopAtFull(t) ==
    /\ bPc[t] = "send"
    /\ LET loc == bLoc[t]
           ch == loc.listeners[loc.i]
           full == Len(chanBuf[ch]) >= Cap(ch)
       IN /\ chanBuf' = [chanBuf EXCEPT ![ch] = TrySend(@, Cap(ch), loc.res)]
          /\ bLoc' = [bLoc EXCEPT ![t] = Advance(loc, full, full \/ loc.i = Len(loc.listeners))]
          /\ bPc' = [bPc EXCEPT ![t] =
                        IF full \/ loc.i = Len(loc.listeners) THEN Rest(t) ELSE "send"]
    /\ UNCHANGED <<bResources, bListeners, ctxCancelled, dVars, mVars, nVars, qVars, rVars, sVars, vVars, pVars>>

DeliverNext(t) ==
    /\ bPc[t] = "send"
    /\ LET loc == bLoc[t]
           ch == loc.listeners[loc.i]
           full == Len(chanBuf[ch]) >= Cap(ch)
       IN /\ chanBuf' = [chanBuf EXCEPT ![ch] = TrySend(@, Cap(ch), loc.res)]
          /\ bLoc' = [bLoc EXCEPT ![t] = Advance(loc, full, loc.i = Len(loc.listeners))]
          /\ bPc' = [bPc EXCEPT ![t] = IF loc.i = Len(loc.listeners) THEN Rest(t) ELSE "send"]
    /\ UNCHANGED <<bResources, bListeners, ctxCancelled, dVars, mVars, nVars, qVars, rVars, sVars, vVars, pVars>>

\* Subscribe(ch): append under the lock; nothing rejects a channel subscribed before
Subscribe(ch) ==
    /\ Len(bListeners) < MaxListeners
    /\ bListeners' = Append(bListeners, ch)
    /\ UNCHANGED <<bResources, chanBuf, bPc, bLoc, ctxCancelled, dVars, mVars, nVars, qVars, rVars, sVars, vVars,
                   pVars>>

\* Start(ctx): spawn the ticker goroutine
BStart ==
    /\ bPc[Ticker] = "off"
    /\ bPc' = [bPc EXCEPT ![Ticker] = "wait"]
    /\ UNCHANGED <<bResources, bListeners, chanBuf, bLoc, ctxCancelled, dVars, mVars, nVars, qVars, rVars, sVars, vVars,
                   pVars>>

\* the owner of ctx cancels it
BCancel ==
    /\ bPc[Ticker] # "off"
    /\ ~ctxCancelled
    /\ ctxCancelled' = TRUE
    /\ UNCHANGED <<bResources, bListeners, chanBuf, bPc, bLoc, dVars, mVars, nVars, qVars, rVars, sVars, vVars, pVars>>

\* case <-ctx.Done(): continue
TickerExit_Continue ==
    /\ bPc[Ticker] = "wait"
    /\ ctxCancelled
    /\ UNCHANGED vars

\* case <-ctx.Done(): return (the deferred ticker.Stop() runs)
TickerExit ==
    /\ bPc[Ticker] = "wait"
    /\ ctxCancelled
    /\ bPc' = [bPc EXCEPT ![Ticker] = "exited"]
    /\ UNCHANGED <<bResources, bListeners, chanBuf, bLoc, ctxCancelled, dVars, mVars, nVars, qVars, rVars, sVars, vVars,
                   pVars>>

\* a subscriber takes the oldest value off its channel
Receive(ch) ==
    /\ chanBuf[ch] # <<>>
    /\ chanBuf' = [chanBuf EXCEPT ![ch] = Tail(@)]
    /\ UNCHANGED <<bResources, bListeners, bPc, bLoc, ctxCancelled, dVars, mVars, nVars, qVars, rVars, sVars, vVars,
                   pVars>>

-----------------------------------------------------------------------------
(* Broadcaster: the values it hands out, its node registry and its metric reports *)

\* the goroutines that call the Broadcaster; the ticker's goroutine runs broadcast()
Goroutines == {"g1", "g2"}
VTasks == Goroutines \cup {Ticker}

\* the backing arrays of GPU lists; 0 stands for a list without elements
GpuArrays == {1, 2}

\* GetResourceInfo(): MaxLayers 20, UsedLayers 0 and no GPU
GetResourceInfo == [maxLayers |-> 20, usedLayers |-> 0, gpus |-> 0]

\* what callers pass to UpdateResources: a value with one GPU, as in
\* TestRealBroadcasterUpdateResources, and one without
TestResources == [maxLayers |-> 32, usedLayers |-> 8, gpus |-> 1]
ResourceInputs == {TestResources, [maxLayers |-> 64, usedLayers |-> 0, gpus |-> 0]}

\* what callers pass to AddNode: a node without GPUs and one with a GPU list
NodeInputs == {[id |-> "node1", gpus |-> 0], [id |-> "node2", gpus |-> 2]}

\* TestRealBroadcasterConcurrentAccess: each goroutine adds nodes of its own
NodeOf(t) == IF t = "g1" THEN [id |-> "node1", gpus |-> 0] ELSE [id |-> "node2", gpus |-> 2]

\* a goroutine that is in no call
NotCalling == [op |-> "none", resources |-> <<>>, listeners |-> <<>>,
               collector |-> FALSE, nodeCount |-> 0]

\* one read or write of a field shared between goroutines
Access(field, kind, lock) == [field |-> field, kind |-> kind, lock |-> lock]

\* a caller that has not got a value yet
NothingHeld == [resources |-> <<>>, nodes |-> <<>>]

\* NewBroadcaster()
InitValues ==
    /\ vResources = GetResourceInfo
    /\ vNodes = <<>>
    /\ vListeners = <<>>
    /\ vCollector = FALSE
    /\ vGpu = [a \in GpuArrays |-> 8192]
    /\ vChan = <<>>
    /\ vHeld = NothingHeld
    /\ vCall = [t \in VTasks |-> NotCalling]
    /\ vReports = [nodeResources |-> 0, connections |-> 0, message |-> "none"]
    /\ vCalls = [updateResources |-> 0, uncollected |-> 0, addNode |-> 0]
    /\ vAccess = {}

\* Broadcaster.SetMetricsCollector with a collector
BSetMetricsCollector ==
    /\ ~vCollector
    /\ vCollector' = TRUE
    /\ UNCHANGED <<vResources, vNodes, vListeners, vGpu, vChan, vHeld, vCall, vReports, vCalls,
                   vAccess, bVars, dVars, mVars, nVars, qVars, rVars, sVars, pVars>>

\* what a goroutine copies under the lock before it delivers
Copies(op, r, nodeCount) ==
    [op |-> op, resources |-> <<r>>, listeners |-> vListeners,
     collector |-> vCollector, nodeCount |-> nodeCount]

\* for _, listener := range listeners { select { case listener <- v: default: } }
RECURSIVE SendAll(_, _, _)
SendAll(buf, listeners, v) ==
    IF listeners = <<>> THEN buf
    ELSE SendAll(TrySend(buf, Cap(Head(listeners)), v), Tail(listeners), v)

AfterSends_ReturnsWithoutCollector(buf, call) ==
    IF call.collector THEN SendAll(buf, call.listeners, call.resources[1]) ELSE buf

\* the channel after the delivery loop of a call
AfterSends(buf, call) == SendAll(buf, call.listeners, call.resources[1])

\* UpdateResources, under b.mu.Lock(): replace the snapshot, copy the listeners,
\* the snapshot and the collector
BUpdateResources(t, r) ==
    /\ t \in Goroutines
    /\ vCall[t] = NotCalling
    /\ vCalls.updateResources < MaxCalls
    /\ vResources' = r
    /\ vCall' = [vCall EXCEPT ![t] = Copies("updateResources", r, 0)]
    /\ vCalls' = [vCalls EXCEPT !.updateResources = @ + 1,
                                !.uncollected = IF vCollector THEN @ ELSE @ + 1]
    /\ UNCHANGED <<vNodes, vListeners, vCollector, vGpu, vChan, vHeld, vReports, vAccess,
                   bVars, dVars, mVars, nVars, qVars, rVars, sVars, pVars>>

\* UpdateResources after Unlock: report to the collector, offer the copy to
\* every listener
BUpdateResourcesSend(t) ==
    /\ vCall[t].op = "updateResources"
    /\ vReports' = IF vCall[t].collector THEN [vReports EXCEPT !.nodeResources = @ + 1]
                   ELSE vReports
    /\ vChan' = AfterSends(vChan, vCall[t])
    /\ vCall' = [vCall EXCEPT ![t] = NotCalling]
    /\ UNCHANGED <<vResources, vNodes, vListeners, vCollector, vGpu, vHeld, vCalls, vAccess,
                   bVars, dVars, mVars, nVars, qVars, rVars, sVars, pVars>>

\* GetResources: the snapshot, copied by assignment (its GPUs field still
\* points to the same backing array)
BGetResources ==
    /\ vHeld' = [resources |-> <<vResources>>, nodes |-> <<>>]
    /\ UNCHANGED <<vResources, vNodes, vListeners, vCollector, vGpu, vChan, vCall, vReports,
                   vCalls, vAccess, bVars, dVars, mVars, nVars, qVars, rVars, sVars, pVars>>

\* Subscribe(ch), by a subscriber that has not subscribed its channel yet
BSubscribe(ch) ==
    /\ \A i \in 1..Len(vListeners) : vListeners[i] # ch
    /\ vListeners' = Append(vListeners, ch)
    /\ UNCHANGED <<vResources, vNodes, vCollector, vGpu, vChan, vHeld, vCall, vReports, vCalls,
                   vAccess, bVars, dVars, mVars, nVars, qVars, rVars, sVars, pVars>>

WithNode_Overwrites(list, node) ==
    IF list = <<>> THEN <<node>> ELSE [list EXCEPT ![Len(list)] = node]

\* append(b.nodes, node)
WithNode(list, node) == Append(list, node)

\* AddNode, under b.mu.Lock(): append, take the count and the collector
BAddNode(t, node) ==
    /\ t \in Goroutines
    /\ vCall[t] = NotCalling
    /\ vCalls.addNode < MaxCalls
    /\ vNodes' = WithNode(vNodes, node)
    /\ vCall' = [vCall EXCEPT ![t] =
                    [NotCalling EXCEPT !.op = "addNode", !.collector = vCollector,
                                       !.nodeCount = Len(vNodes')]]
    /\ vCalls' = [vCalls EXCEPT !.addNode = @ + 1]
    /\ UNCHANGED <<vResources, vListeners, vCollector, vGpu, vChan, vHeld, vReports, vAccess,
                   bVars, dVars, mVars, nVars, qVars, rVars, sVars, pVars>>

\* AddNode after Unlock: UpdateNetworkConnections(nodeCount) and
\* RecordNetworkMessage("incoming", "node_added")
BAddNodeReport(t) ==
    /\ vCall[t].op = "addNode"
    /\ vReports' = IF vCall[t].collector
                   THEN [vReports EXCEPT !.connections = vCall[t].nodeCount,
                                         !.message = "incoming node_added"]
                   ELSE vReports
    /\ vCall' = [vCall EXCEPT ![t] = NotCalling]
    /\ UNCHANGED <<vResources, vNodes, vListeners, vCollector, vGpu, vChan, vHeld, vCalls,
                   vAccess, bVars, dVars, mVars, nVars, qVars, rVars, sVars, pVars>>

\* GetNodes: append([]models.Node{}, b.nodes...), a new slice of the same
\* node values (each node's GPUs field still points to the same backing array)
BGetNodes ==
    /\ vHeld' = [resources |-> <<>>, nodes |-> <<vNodes>>]
    /\ UNCHANGED <<vResources, vNodes, vListeners, vCollector, vGpu, vChan, vCall, vReports,
                   vCalls, vAccess, bVars, dVars, mVars, nVars, qVars, rVars, sVars, pVars>>

\* broadcast() on a tick, under b.mu.RLock(): copy the listeners, the snapshot
\* and the collector
BBroadcast ==
    /\ vCall[Ticker] = NotCalling
    /\ vCall' = [vCall EXCEPT ![Ticker] = Copies("broadcast", vResources, 0)]
    /\ UNCHANGED <<vResources, vNodes, vListeners, vCollector, vGpu, vChan, vHeld, vReports,
                   vCalls, vAccess, bVars, dVars, mVars, nVars, qVars, rVars, sVars, pVars>>

\* broadcast() after RUnlock: RecordNetworkMessage("outgoing",
\* "resource_broadcast"), then offer the copy to every listener
BBroadcastSend ==
    /\ vCall[Ticker].op = "broadcast"
    /\ vReports' = IF vCall[Ticker].collector
                   THEN [vReports EXCEPT !.message = "outgoing resource_broadcast"]
                   ELSE vReports
    /\ vChan' = AfterSends(vChan, vCall[Ticker])
    /\ vCall' = [vCall EXCEPT ![Ticker] = NotCalling]
    /\ UNCHANGED <<vResources, vNodes, vListeners, vCollector, vGpu, vHeld, vCalls, vAccess,
                   bVars, dVars, mVars, nVars, qVars, rVars, sVars, pVars>>

\* the subscriber takes the oldest value off its channel
BReceive ==
    /\ vChan # <<>>
    /\ vHeld' = [resources |-> <<Head(vChan)>>, nodes |-> <<>>]
    /\ vChan' = Tail(vChan)
    /\ UNCHANGED <<vResources, vNodes, vListeners, vCollector, vGpu, vCall, vReports, vCalls,
                   vAccess, bVars, dVars, mVars, nVars, qVars, rVars, sVars, pVars>>

\* the holder of a ResourceInfo assigns to its UsedLayers field
CallerSetsUsedLayers ==
    /\ vHeld.resources # <<>>
    /\ vHeld.resources[1].usedLayers # vHeld.resources[1].maxLayers
    /\ vHeld' = [vHeld EXCEPT !.resources[1].usedLayers = vHeld.resources[1].maxLayers]
    /\ UNCHANGED <<vResources, vNodes, vListeners, vCollector, vGpu, vChan, vCall, vReports,
                   vCalls, vAccess, bVars, dVars, mVars, nVars, qVars, rVars, sVars, pVars>>

\* the holder of a ResourceInfo assigns to GPUs[0].MemoryMB
CallerSetsGpuMemory ==
    /\ vHeld.resources # <<>>
    /\ vHeld.resources[1].gpus # 0
    /\ vGpu[vHeld.resources[1].gpus] # 0
    /\ vGpu' = [vGpu EXCEPT ![vHeld.resources[1].gpus] = 0]
    /\ UNCHANGED <<vResources, vNodes, vListeners, vCollector, vChan, vHeld, vCall, vReports,
                   vCalls, vAccess, bVars, dVars, mVars, nVars, qVars, rVars, sVars, pVars>>

\* the holder of a node list assigns to the ID of its first node
CallerRenamesNode ==
    /\ vHeld.nodes # <<>>
    /\ vHeld.nodes[1] # <<>>
    /\ vHeld.nodes[1][1].id # "modified"
    /\ vHeld' = [vHeld EXCEPT !.nodes[1][1].id = "modified"]
    /\ UNCHANGED <<vResources, vNodes, vListeners, vCollector, vGpu, vChan, vCall, vReports,
                   vCalls, vAccess, bVars, dVars, mVars, nVars, qVars, rVars, sVars, pVars>>

\* the holder of a node list assigns to Resources.GPUs[0].MemoryMB of a node
CallerSetsNodeGpuMemory ==
    /\ vHeld.nodes # <<>>
    /\ \E i \in 1..Len(vHeld.nodes[1]) :
          /\ vHeld.nodes[1][i].gpus # 0
          /\ vGpu[vHeld.nodes[1][i].gpus] # 0
          /\ vGpu' = [vGpu EXCEPT ![vHeld.nodes[1][i].gpus] = 0]
    /\ UNCHANGED <<vResources, vNodes, vListeners, vCollector, vChan, vHeld, vCall, vReports,
                   vCalls, vAccess, bVars, dVars, mVars, nVars, qVars, rVars, sVars, pVars>>

-----------------------------------------------------------------------------
(* Client Discovery *)

\* the gRPC addresses of two agents (host:bindPort), in the order the probing
\* loops try them
Addrs == {"a1", "a2"}
AddrSeq == <<"a1", "a2">>

\* P2PNetwork.GetNodes: the address and port of a memberlist member, which is
\* the agent's gossip endpoint (host:gossipPort); NewP2PNetwork makes sure it
\* is not the gRPC endpoint
GossipAddr(a) == IF a = "a1" THEN "g1" ELSE "g2"
GossipAddrs == {GossipAddr(a) : a \in Addrs}

\* every address the console may dial
AllAddrs == Addrs \cup GossipAddrs
ClientIds == 1..MaxClients
\* resources an agent may report
DResVals == {1}
\* the probing goroutines: the strategy's periodic loop and one connectToAgent
\* retry loop per seed address
Loop == "loop"
DTasks == {Loop} \cup Addrs

NoTLoc == [client |-> 0, clients |-> {}, peers |-> <<>>]
NoClient == [addr |-> "", st |-> "unused"]

\* NewAgentDiscovery(config)
NewAgentDiscovery(docker, k8s, hasChan, seeds) ==
    /\ dDocker = docker
    /\ dK8s = k8s
    /\ dMode = "none"
    /\ dHasChan = hasChan
    /\ dSeeds = seeds
    /\ dStarted = FALSE
    /\ dStopped = FALSE
    /\ dMu = 0
    /\ dClients = [a \in AllAddrs |-> 0]
    /\ dNodes = [a \in AllAddrs |-> 0]
    /\ updateChan = <<>>
    /\ reach = [a \in AllAddrs |-> FALSE]
    /\ cl = [c \in ClientIds |-> NoClient]
    /\ mPc = [c \in ClientIds |-> "none"]
    /\ tPc = [t \in DTasks |-> "off"]
    /\ tLoc = [t \in DTasks |-> NoTLoc]

\* DiscoveryConfig values examined: each branch of Start alone and with the
\* fields of the other branches set too, no seed, one and two seeds, with the
\* node-update channel (as cmd/agent/main.go makes it) and without (as the
\* tests do)
Cfg(docker, k8s, hasChan, seeds) ==
    [docker |-> docker, k8s |-> k8s, hasChan |-> hasChan, seeds |-> seeds]

Configs ==
    { Cfg(TRUE, FALSE, TRUE, {"a1"}),
      Cfg(TRUE, TRUE, FALSE, {"a1"}),
      Cfg(FALSE, TRUE, FALSE, {"a1"}),
      Cfg(FALSE, FALSE, TRUE, {"a1"}),
      Cfg(FALSE, FALSE, FALSE, {"a1", "a2"}),
      Cfg(FALSE, FALSE, TRUE, {"a1", "a2"}),
      Cfg(FALSE, FALSE, FALSE, {}) }

InitDiscovery ==
    \E c \in Configs : NewAgentDiscovery(c.docker, c.k8s, c.hasChan, c.seeds)

\* the discovery object as it is while another component is examined
IdleDiscovery == NewAgentDiscovery(FALSE, FALSE, FALSE, {})

\* d.mu can be taken (for reading or writing) by a goroutine that does not hold it
CanLock == dMu = 0

Registered == {a \in AllAddrs : dClients[a] # 0}

\* GetNodes(): the addresses listed, and GetClient(address): found or not
GetNodes == {a \in AllAddrs : dNodes[a] # 0}
GetClient(a) == dClients[a]

\* Start() as it would be with the namespace looked at first
StartBranch_NamespaceFirst == IF dK8s THEN "k8s" ELSE IF dDocker THEN "docker" ELSE "seed"

\* Start(): the branch by configuration
StartBranch == IF dDocker THEN "docker" ELSE IF dK8s THEN "k8s" ELSE "seed"

\* Start(): the periodic loop of the branch and, in the seed branch, one
\* connectToAgent goroutine per seed node
DStart ==
    /\ ~dStarted
    /\ dStarted' = TRUE
    /\ dMode' = StartBranch
    /\ tPc' = [t \in DTasks |->
                 IF t = Loop THEN "next"
                 ELSE IF StartBranch = "seed" /\ t \in dSeeds THEN "probe" ELSE "off"]
    /\ UNCHANGED <<dDocker, dK8s, dHasChan, dSeeds, dStopped, dMu, dClients, dNodes,
                   updateChan, reach, cl, mPc, tLoc, bVars, mVars, nVars, qVars, rVars, sVars, vVars,
                   pVars>>

\* where tryConnectToAgent's caller goes on: the loop takes its next address,
\* connectToAgent breaks on success and retries after 5 s otherwise
AfterTry(t, ok) == IF t = Loop THEN "next" ELSE IF ok THEN "exited" ELSE "probe"

\* the periodic loop has nothing left to try
RoundOver == tLoc[Loop].peers = <<>> /\ tLoc[Loop].clients = {}

\* the tick, and the top of the periodic loop: discoverDockerAgents and
\* discoverK8sAgents list their candidates (the SRV lookup may add some),
\* discoverThroughGossip copies the clients under the read lock
RoundStart ==
    /\ tPc[Loop] = "next"
    /\ RoundOver
    /\ \/ /\ dMode = "docker"
          /\ tLoc' = [tLoc EXCEPT ![Loop].peers = AddrSeq]
       \/ /\ dMode = "k8s"
          /\ \E srv \in {<<>>, <<"a2">>} :
                tLoc' = [tLoc EXCEPT ![Loop].peers = <<"a1">> \o srv]
       \/ /\ dMode = "seed"
          /\ CanLock
          /\ tLoc' = [tLoc EXCEPT ![Loop].clients = {dClients[a] : a \in Registered}]
    /\ UNCHANGED <<dDocker, dK8s, dMode, dHasChan, dSeeds, dStarted, dStopped, dMu, dClients, dNodes,
                   updateChan, reach, cl, mPc, tPc, bVars, mVars, nVars, qVars, rVars, sVars, vVars,
                   pVars>>

\* NodeServer.GetPeers and Client.GetPeers: the agents that are up form one
\* cluster, and an agent names every member, itself included, by
\* "Address:Port" of the member's memberlist entry
ReportedPeers ==
    LET up == SelectSeq(AddrSeq, LAMBDA a : reach[a])
    IN [i \in 1..Len(up) |-> GossipAddr(up[i])]

\* discoverThroughGossip: getPeersFromAgent on the next client of the copy
LoopGetPeers ==
    /\ tPc[Loop] = "next"
    /\ tLoc[Loop].peers = <<>>
    /\ \E c \in tLoc[Loop].clients :
          \/ /\ cl[c].st = "open" /\ reach[cl[c].addr]
             /\ tLoc' = [tLoc EXCEPT ![Loop].clients = @ \ {c},
                                     ![Loop].peers = ReportedPeers]
          \/ /\ ~(cl[c].st = "open" /\ reach[cl[c].addr])
             /\ tLoc' = [tLoc EXCEPT ![Loop].clients = @ \ {c}]
    /\ UNCHANGED <<dDocker, dK8s, dMode, dHasChan, dSeeds, dStarted, dStopped, dMu, dClients, dNodes,
                   updateChan, reach, cl, mPc, tPc, bVars, mVars, nVars, qVars, rVars, sVars, vVars,
                   pVars>>

\* a Client slot is free when no Client was made in it yet or the one made is
\* garbage: out of the registry, its monitor gone, no goroutine holding it
FreeClient(c) ==
    IF cl[c].st = "unused" THEN TRUE
    ELSE /\ dClients[cl[c].addr] # c
         /\ mPc[c] \in {"none", "exited"}
         /\ \A t \in DTasks : tLoc[t].client # c /\ c \notin tLoc[t].clients

\* the Client object a successful dial creates
FreshClient == CHOOSE c \in ClientIds :
                  FreeClient(c) /\ \A e \in ClientIds : e < c => ~FreeClient(e)

\* the goroutine is about to call tryConnectToAgent, and with which address
ReadyToTry(t) ==
    IF t = Loop THEN tPc[t] = "next" /\ tLoc[t].peers # <<>> ELSE tPc[t] = "probe"
TryAddr(t) == IF t = Loop THEN Head(tLoc[t].peers) ELSE t
Rest1(t) == IF t = Loop THEN Tail(tLoc[t].peers) ELSE <<>>

\* tryConnectToAgent up to the verified connection: the existence check under
\* the read lock, NewClient, Connect and GetResourceInfo
Probe(t) ==
    /\ ReadyToTry(t)
    /\ CanLock
    /\ LET a == TryAddr(t) IN
         \/ /\ dClients[a] # 0
            /\ tPc' = [tPc EXCEPT ![t] = AfterTry(t, TRUE)]
            /\ tLoc' = [tLoc EXCEPT ![t].peers = Rest1(t)]
            /\ UNCHANGED cl
         \/ /\ dClients[a] = 0
            /\ ~reach[a]
            /\ tPc' = [tPc EXCEPT ![t] = AfterTry(t, FALSE)]
            /\ tLoc' = [tLoc EXCEPT ![t].peers = Rest1(t)]
            /\ UNCHANGED cl
         \/ /\ dClients[a] = 0
            /\ reach[a]
            /\ \E c \in ClientIds : FreeClient(c)
            /\ cl' = [cl EXCEPT ![FreshClient] = [addr |-> a, st |-> "open"]]
            /\ tLoc' = [tLoc EXCEPT ![t].client = FreshClient, ![t].peers = Rest1(t)]
            /\ tPc' = [tPc EXCEPT ![t] = "register"]
    /\ UNCHANGED <<dDocker, dK8s, dMode, dHasChan, dSeeds, dStarted, dStopped, dMu, dClients, dNodes,
                   updateChan, reach, mPc, bVars, mVars, nVars, qVars, rVars, sVars, vVars, pVars>>

\* tryConnectToAgent: the node and client are stored under the write lock and
\* the monitor goroutine is spawned
Register(t) ==
    /\ tPc[t] = "register"
    /\ CanLock
    /\ LET c == tLoc[t].client
           a == cl[c].addr
       IN /\ dClients' = [dClients EXCEPT ![a] = c]
          /\ \E r \in DResVals : dNodes' = [dNodes EXCEPT ![a] = r]
          /\ mPc' = [mPc EXCEPT ![c] = "wait"]
          /\ tLoc' = [tLoc EXCEPT ![t].client = 0]
          /\ tPc' = [tPc EXCEPT ![t] = IF dHasChan THEN "notify" ELSE AfterTry(t, TRUE)]
    /\ UNCHANGED <<dDocker, dK8s, dMode, dHasChan, dSeeds, dStarted, dStopped, dMu, updateChan, reach,
                   cl, bVars, mVars, nVars, qVars, rVars, sVars, vVars, pVars>>

\* notifyNodesUpdate called without the lock held: copy the nodes under the
\* read lock, then select { case d.updateChan <- nodes: default: }
Notify(t) ==
    /\ tPc[t] = "notify"
    /\ CanLock
    /\ updateChan' = TrySend(updateChan, UpdCap, dNodes)
    /\ tPc' = [tPc EXCEPT ![t] = AfterTry(t, TRUE)]
    /\ UNCHANGED <<dDocker, dK8s, dMode, dHasChan, dSeeds, dStarted, dStopped, dMu, dClients, dNodes,
                   reach, cl, mPc, tLoc, bVars, mVars, nVars, qVars, rVars, sVars, vVars, pVars>>

\* monitorAgent: a tick, then GetResourceInfo on the monitor's own client
Poll(c) ==
    /\ mPc[c] = "wait"
    /\ mPc' = [mPc EXCEPT ![c] =
                  IF cl[c].st = "open" /\ reach[cl[c].addr] THEN "update" ELSE "remove"]
    /\ UNCHANGED <<dDocker, dK8s, dMode, dHasChan, dSeeds, dStarted, dStopped, dMu, dClients, dNodes,
                   updateChan, reach, cl, tPc, tLoc, bVars, mVars, nVars, qVars, rVars, sVars, vVars,
                   pVars>>

\* the refresh as it would be if it stored the node whether or not the address
\* is still in the map
Refreshed_Unconditionally(nodes, a, r) == [nodes EXCEPT ![a] = r]

\* if node, exists := d.nodes[address]; exists { node.Resources = ... }
Refreshed(nodes, a, r) == IF nodes[a] # 0 THEN [nodes EXCEPT ![a] = r] ELSE nodes

\* monitorAgent after a successful poll: refresh the node if it is still there
MonUpdate(c) ==
    /\ mPc[c] = "update"
    /\ CanLock
    /\ \E r \in DResVals : dNodes' = Refreshed(dNodes, cl[c].addr, r)
    /\ mPc' = [mPc EXCEPT ![c] = IF dHasChan THEN "notify" ELSE "wait"]
    /\ UNCHANGED <<dDocker, dK8s, dMode, dHasChan, dSeeds, dStarted, dStopped, dMu, dClients,
                   updateChan, reach, cl, tPc, tLoc, bVars, mVars, nVars, qVars, rVars, sVars, vVars,
                   pVars>>

\* monitorAgent: notifyNodesUpdate after the refresh
MonNotify(c) ==
    /\ mPc[c] = "notify"
    /\ CanLock
    /\ updateChan' = TrySend(updateChan, UpdCap, dNodes)
    /\ mPc' = [mPc EXCEPT ![c] = "wait"]
    /\ UNCHANGED <<dDocker, dK8s, dMode, dHasChan, dSeeds, dStarted, dStopped, dMu, dClients, dNodes,
                   reach, cl, tPc, tLoc, bVars, mVars, nVars, qVars, rVars, sVars, vVars, pVars>>

\* removeAgent(address) after a failed poll: under the write lock the client
\* registered for the address is closed and both entries are deleted; then
\* notifyNodesUpdate is called with the write lock still held. With no update
\* channel it returns at once, the deferred Unlock runs and the monitor ends.
\* With a channel it asks for the read lock of the mutex its own goroutine
\* holds for writing: sync.RWMutex is not reentrant, the goroutine waits there
\* for ever and the lock is never released.
MonRemove(c) ==
    /\ mPc[c] = "remove"
    /\ CanLock
    /\ LET a == cl[c].addr
           reg == dClients[a]
       IN /\ cl' = IF reg # 0 THEN [cl EXCEPT ![reg].st = "closed"] ELSE cl
          /\ dClients' = [dClients EXCEPT ![a] = 0]
          /\ dNodes' = [dNodes EXCEPT ![a] = 0]
    /\ IF dHasChan
         THEN dMu' = c /\ mPc' = [mPc EXCEPT ![c] = "stuck"]
         ELSE dMu' = 0 /\ mPc' = [mPc EXCEPT ![c] = "exited"]
    /\ UNCHANGED <<dDocker, dK8s, dMode, dHasChan, dSeeds, dStarted, dStopped, updateChan, reach,
                   tPc, tLoc, bVars, mVars, nVars, qVars, rVars, sVars, vVars, pVars>>

\* Stop(): close every registered client and replace both maps, under the
\* write lock; no goroutine is told to end
DStop ==
    /\ CanLock
    /\ cl' = [c \in ClientIds |->
                IF \E a \in AllAddrs : dClients[a] = c THEN [cl[c] EXCEPT !.st = "closed"]
                ELSE cl[c]]
    /\ dClients' = [a \in AllAddrs |-> 0]
    /\ dNodes' = [a \in AllAddrs |-> 0]
    /\ dStopped' = TRUE
    /\ UNCHANGED <<dDocker, dK8s, dMode, dHasChan, dSeeds, dStarted, dMu, updateChan, reach, mPc,
                   tPc, tLoc, bVars, mVars, nVars, qVars, rVars, sVars, vVars, pVars>>

\* environment: an agent goes down or comes (back) up; nothing ever answers
\* gRPC on a gossip endpoint
ReachChange(a) ==
    /\ reach' = [reach EXCEPT ![a] = ~@]
    /\ UNCHANGED <<dDocker, dK8s, dMode, dHasChan, dSeeds, dStarted, dStopped, dMu, dClients, dNodes,
                   updateChan, cl, mPc, tPc, tLoc, bVars, mVars, nVars, qVars, rVars, sVars, vVars,
                   pVars>>

\* the UI takes a node list off the update channel
UIReceive ==
    /\ updateChan # <<>>
    /\ updateChan' = Tail(updateChan)
    /\ UNCHANGED <<dDocker, dK8s, dMode, dHasChan, dSeeds, dStarted, dStopped, dMu, dClients, dNodes,
                   reach, cl, mPc, tPc, tLoc, bVars, mVars, nVars, qVars, rVars, sVars, vVars,
                   pVars>>

-----------------------------------------------------------------------------
(* Membership *)

\* The gossip library (hashicorp/memberlist) is outside the repository; the
\* wrapper's calls into it are modelled by the library's contract: Create binds
\* the gossip port and fails while the port is bound, Join exchanges the full
\* state with every seed that answers and fails when none does, Shutdown
\* releases the port and may be repeated, Members() lists the local node and
\* the nodes it believes alive.

\* NewP2PNetwork(nodeID, bindPort, gossipPort): three nodes, each on a gossip
\* port of its own, as in TestP2PNetworkMultipleNodes
Nodes == {"n1", "n2", "n3"}

\* Start(seedNodes): the seed addresses are gossip addresses of the nodes; the
\* address of a node that is not running is one nobody answers on
SeedSets == SUBSET Nodes

InitMembership ==
    /\ ml = [n \in Nodes |-> "nil"]
    /\ mem = [n \in Nodes |-> {}]
    /\ mJoin = [n \in Nodes |-> "noseeds"]
    /\ mStopped = [n \in Nodes |-> FALSE]
    /\ mLast = "none"
    /\ mPanic = FALSE
    /\ mStarts = 0

\* GetMembers() as it would be if its loop left the local node out
GetMembers_SkipsSelf(n) == IF ml[n] = "nil" THEN {} ELSE mem[n] \ {n}

\* GetMembers(): empty without a memberlist, else the names of Members()
GetMembers(n) == IF ml[n] = "nil" THEN {} ELSE mem[n]

\* list.Join(seedNodes): the seeds that answer
Contacted(n, seeds) == {s \in seeds : s = n \/ ml[s] = "running"}

\* list.Join as it would be if the joiner took nothing from the seeds
Merged_SelfOnly(n, seeds) == {n}

\* what the state exchange with the answering seeds leaves in the joiner's list
Merged(n, seeds) == {n} \cup UNION {mem[s] : s \in Contacted(n, seeds) \ {n}}

JoinOutcome(n, seeds) ==
    IF seeds = {} THEN "noseeds"
    ELSE IF Contacted(n, seeds) = {} THEN "failed"
    ELSE IF Contacted(n, seeds) = {n} THEN "self"
    ELSE "peer"

\* Start, memberlist.Create failed (the port is held by the list of an earlier
\* Start): the error is returned and nothing else happens
StartCreateFails(n) ==
    /\ ml[n] = "running"
    /\ mLast' = "start:err"
    /\ UNCHANGED <<ml, mem, mJoin, mStopped, mPanic, mStarts>>

\* Start, the failure of Join is what a stricter Start would return
StartResult_JoinFailureFatal(n, seeds) ==
    IF JoinOutcome(n, seeds) = "failed" THEN "start:err" ELSE "start:ok"

\* what Start returns once the memberlist exists, whatever Join did
StartResult(n, seeds) == "start:ok"

\* Start, memberlist.Create succeeded: the new list replaces n.memberlist, the
\* join (if seeds were given) is attempted and its failure only logged
StartCreated(n, seeds) ==
    /\ ml[n] # "running"
    /\ mStarts < MaxStarts
    /\ ml' = [ml EXCEPT ![n] = "running"]
    /\ mem' = [m \in Nodes |->
                 IF m = n THEN Merged(n, seeds)
                 ELSE IF m \in Contacted(n, seeds) THEN mem[m] \cup {n}
                 ELSE mem[m]]
    /\ mJoin' = [mJoin EXCEPT ![n] = JoinOutcome(n, seeds)]
    /\ mLast' = StartResult(n, seeds)
    /\ mStarts' = mStarts + 1
    /\ UNCHANGED <<mStopped, mPanic>>

MStart(n, seeds) ==
    /\ \/ StartCreateFails(n)
       \/ StartCreated(n, seeds)
    /\ UNCHANGED <<bVars, dVars, nVars, qVars, rVars, sVars, vVars, pVars>>

\* Stop() as it would be without the nil check: Shutdown on a nil memberlist
\* is a nil pointer dereference
StopList_NoNilCheck(n) ==
    /\ ml' = [ml EXCEPT ![n] = "shutdown"]
    /\ mPanic' = (mPanic \/ ml[n] = "nil")

\* Stop() as it would be if it dropped the list it shut down
StopList_DropsList(n) ==
    /\ ml' = [ml EXCEPT ![n] = "nil"]
    /\ UNCHANGED mPanic

\* Stop(): Shutdown of the memberlist if there is one
StopList(n) ==
    /\ ml' = [ml EXCEPT ![n] = IF ml[n] = "nil" THEN "nil" ELSE "shutdown"]
    /\ UNCHANGED mPanic

MStop(n) ==
    /\ StopList(n)
    /\ mStopped' = [mStopped EXCEPT ![n] = mStopped[n] \/ ml[n] = "running"]
    /\ mLast' = IF ml[n] = "nil" THEN "stop:nil"
                ELSE IF ml[n] = "running" THEN "stop:running"
                ELSE "stop:shutdown"
    /\ UNCHANGED <<mem, mJoin, mStarts, bVars, dVars, nVars, qVars, rVars, sVars, vVars, pVars>>

\* the library's periodic gossip: running node i tells a member j it knows
\* that k is alive
Gossip(i, j, k) ==
    /\ ml[i] = "running" /\ ml[j] = "running" /\ ml[k] = "running"
    /\ j \in mem[i] /\ k \in mem[i]
    /\ k \notin mem[j]
    /\ mem' = [mem EXCEPT ![j] = @ \cup {k}]
    /\ mLast' = "gossip"
    /\ UNCHANGED <<ml, mJoin, mStopped, mPanic, mStarts, bVars, dVars, nVars, qVars, rVars, sVars, vVars, pVars>>

\* the library's failure detector: a running node drops a member that no
\* longer answers
FailureDetect(i, k) ==
    /\ ml[i] = "running"
    /\ k \in mem[i] /\ k # i
    /\ ml[k] # "running"
    /\ mem' = [mem EXCEPT ![i] = @ \ {k}]
    /\ UNCHANGED <<ml, mJoin, mStopped, mLast, mPanic, mStarts, bVars, dVars, nVars, qVars, rVars, sVars, vVars,
                   pVars>>

\* the state of an instance in the terms of the lifecycle
MState(n) ==
    IF ml[n] = "nil" THEN "Created"
    ELSE IF ml[n] = "shutdown" THEN "Stopped"
    ELSE IF mJoin[n] \in {"self", "peer"} THEN "Joined"
    ELSE "Standalone"

-----------------------------------------------------------------------------
(* Membership creation *)

\* the characters a node ID is made of: an ordinary one, the three that
\* NewP2PNetwork rejects, another control character (BEL) and a space
IdChars == {"a", "LF", "CR", "TAB", "BEL", "SP"}

RECURSIVE SeqsUpTo(_, _)
SeqsUpTo(S, k) ==
    IF k = 0 THEN {<<>>}
    ELSE LET shorter == SeqsUpTo(S, k - 1)
         IN shorter \cup {Append(q, x) : q \in {r \in shorter : Len(r) = k - 1}, x \in S}

NodeIds == SeqsUpTo(IdChars, MaxIdLen)

\* the ports tried: around both ends of the valid range
PortVals == {0 - 1, 0, 1, 2, MaxPort, MaxPort + 1}

NoArgs == [nodeID |-> <<>>, bindPort |-> 0, gossipPort |-> 0]

\* nothing has been created
IdleCreation == crArgs = NoArgs /\ crRes = <<>>

\* a caller is about to call NewP2PNetwork with some arguments
InitCreation ==
    /\ crArgs \in [nodeID : NodeIds, bindPort : PortVals, gossipPort : PortVals]
    /\ crRes = <<>>

\* strings.ContainsAny(s, chars)
ContainsAny(s, chars) == \E i \in 1..Len(s) : s[i] \in chars

\* the port checks as they would be without the comparison of the two ports
PortError_NoClashCheck(bindPort, gossipPort) ==
    IF bindPort <= 0 \/ bindPort > MaxPort THEN "invalid bind port"
    ELSE IF gossipPort <= 0 \/ gossipPort > MaxPort THEN "invalid gossip port"
    ELSE "nil"

\* NewP2PNetwork, "Validate ports": the error, "nil" if there is none
PortError(bindPort, gossipPort) ==
    IF bindPort <= 0 \/ bindPort > MaxPort THEN "invalid bind port"
    ELSE IF gossipPort <= 0 \/ gossipPort > MaxPort THEN "invalid gossip port"
    ELSE IF bindPort = gossipPort THEN "bind port and gossip port cannot be the same"
    ELSE "nil"

\* NewP2PNetwork(nodeID, bindPort, gossipPort): the pair (network, error) it
\* returns, the network being nil (<<>>) or a new instance without a memberlist
NewP2PNetwork(nodeID, bindPort, gossipPort) ==
    IF nodeID = <<>>
      THEN [net |-> <<>>, err |-> "node ID cannot be empty"]
    ELSE IF ContainsAny(nodeID, {"LF", "CR", "TAB"})
      THEN [net |-> <<>>, err |-> "node ID cannot contain newlines or tabs"]
    ELSE IF PortError(bindPort, gossipPort) # "nil"
      THEN [net |-> <<>>, err |-> PortError(bindPort, gossipPort)]
    ELSE [net |-> <<[nodeID |-> nodeID, bindPort |-> bindPort,
                    gossipPort |-> gossipPort, memberlist |-> "nil"]>>,
          err |-> "nil"]

\* the call
Create ==
    /\ crRes = <<>>
    /\ crRes' = <<NewP2PNetwork(crArgs.nodeID, crArgs.bindPort, crArgs.gossipPort)>>
    /\ UNCHANGED <<crArgs, bVars, dVars, mVars, qVars, rVars, sVars, vVars, pVars>>

-----------------------------------------------------------------------------
(* Client Discovery: the values GetNodes and GetClient hand out *)

\* One registry entry is followed: its node record (a struct with scalar
\* fields and the slice Resources.GPUs) and its Client (held by pointer).

\* values of a scalar field of the node record (Resources.MaxLayers)
QResVals == {1, 2}
AllocIds == 1..MaxAllocs

NoNode == [present |-> FALSE, res |-> 0, gpus |-> 0]
NoRet == [kind |-> "none", res |-> 0, gpus |-> 0]

InitQueries ==
    /\ qNode = NoNode
    /\ qClientRef = 0
    /\ qGpu = [i \in AllocIds |-> "free"]
    /\ qConn = [i \in AllocIds |-> "free"]
    /\ qAlloc = 0
    /\ qRetNode = NoRet
    /\ qRetClient = 0

\* GetNodes as it would be if it handed out the registry's *models.Node
GetNodesValue_Live ==
    IF qNode.present THEN [kind |-> "ref", res |-> 0, gpus |-> 0] ELSE NoRet

\* GetNodes: append(nodes, *node) copies the struct; the copy of the slice
\* header Resources.GPUs points to the same backing array
GetNodesValue ==
    IF qNode.present THEN [kind |-> "copy", res |-> qNode.res, gpus |-> qNode.gpus]
    ELSE NoRet

\* GetClient: the map's value, a *Client
GetClientValue == qClientRef

\* tryConnectToAgent: a new Client, and a node record built from the resources
\* GetResourceInfo decoded into a new GPU slice
QRegister ==
    /\ ~qNode.present
    /\ qAlloc < MaxAllocs
    /\ qAlloc' = qAlloc + 1
    /\ \E r \in QResVals : qNode' = [present |-> TRUE, res |-> r, gpus |-> qAlloc + 1]
    /\ qGpu' = [qGpu EXCEPT ![qAlloc + 1] = "gpu"]
    /\ qConn' = [qConn EXCEPT ![qAlloc + 1] = "open"]
    /\ qClientRef' = qAlloc + 1
    /\ UNCHANGED <<qRetNode, qRetClient, bVars, dVars, mVars, nVars, rVars, sVars, vVars, pVars>>

\* monitorAgent after a successful poll: node.Resources = *resources, the
\* resources being decoded into a new GPU slice
QRefresh ==
    /\ qNode.present
    /\ qAlloc < MaxAllocs
    /\ qAlloc' = qAlloc + 1
    /\ \E r \in QResVals : qNode' = [present |-> TRUE, res |-> r, gpus |-> qAlloc + 1]
    /\ qGpu' = [qGpu EXCEPT ![qAlloc + 1] = "gpu"]
    /\ UNCHANGED <<qClientRef, qConn, qRetNode, qRetClient, bVars, dVars, mVars, nVars, rVars, sVars, vVars, pVars>>

\* removeAgent or Stop: the Client is closed and the entries are deleted
QRemove ==
    /\ qNode.present
    /\ qConn' = [qConn EXCEPT ![qClientRef] = "closed"]
    /\ qNode' = NoNode
    /\ qClientRef' = 0
    /\ UNCHANGED <<qGpu, qAlloc, qRetNode, qRetClient, bVars, dVars, mVars, nVars, rVars, sVars, vVars, pVars>>

\* a caller calls GetNodes and keeps the element for the address
QGetNodes ==
    /\ qRetNode' = GetNodesValue
    /\ UNCHANGED <<qNode, qClientRef, qGpu, qConn, qAlloc, qRetClient,
                   bVars, dVars, mVars, nVars, rVars, sVars, vVars, pVars>>

\* a caller calls GetClient(address) and keeps the result
QGetClient ==
    /\ qRetClient' = GetClientValue
    /\ UNCHANGED <<qNode, qClientRef, qGpu, qConn, qAlloc, qRetNode,
                   bVars, dVars, mVars, nVars, rVars, sVars, vVars, pVars>>

\* the scalar field and the GPU array a returned element stands for
RetRes == IF qRetNode.kind = "ref" THEN qNode.res ELSE qRetNode.res
RetGpus == IF qRetNode.kind = "ref" THEN qNode.gpus ELSE qRetNode.gpus

\* the caller assigns to a scalar field of the element it got
CallerSetsField ==
    /\ qRetNode.kind # "none"
    /\ \E v \in QResVals :
          /\ v # RetRes
          /\ IF qRetNode.kind = "ref"
               THEN qNode' = [qNode EXCEPT !.res = v] /\ UNCHANGED qRetNode
               ELSE qRetNode' = [qRetNode EXCEPT !.res = v] /\ UNCHANGED qNode
    /\ UNCHANGED <<qClientRef, qGpu, qConn, qAlloc, qRetClient, bVars, dVars, mVars, nVars, rVars, sVars, vVars,
                   pVars>>

\* the caller assigns to an element of Resources.GPUs of the element it got
CallerSetsGpu ==
    /\ qRetNode.kind # "none"
    /\ RetGpus # 0
    /\ qGpu[RetGpus] # "edited"
    /\ qGpu' = [qGpu EXCEPT ![RetGpus] = "edited"]
    /\ UNCHANGED <<qNode, qClientRef, qConn, qAlloc, qRetNode, qRetClient,
                   bVars, dVars, mVars, nVars, rVars, sVars, vVars, pVars>>

\* the caller calls Close on the Client it got
CallerClosesClient ==
    /\ qRetClient # 0
    /\ qConn[qRetClient] = "open"
    /\ qConn' = [qConn EXCEPT ![qRetClient] = "closed"]
    /\ UNCHANGED <<qNode, qClientRef, qGpu, qAlloc, qRetNode, qRetClient,
                   bVars, dVars, mVars, nVars, rVars, sVars, vVars, pVars>>

-----------------------------------------------------------------------------
(* package network: the unary RPCs of one agent's gRPC server *)

\* NewGRPCServer(network, port) serves the three services over one network.
\* What the handlers read of it is network.GetNodes(): one models.Node per
\* member of the memberlist, none while there is no memberlist.

\* the node the server runs on
Self == "n1"

\* int32(x) of a Go int that is not negative: values above 2^31 - 1 wrap
Int32(x) == IF x > 2147483647 THEN x - 2147483647 - 2147483647 - 2 ELSE x

\* member.Port of the nodes
PortOf(id) == IF id = "n1" THEN 7946 ELSE IF id = "n2" THEN 7947 ELSE MaxPort

\* P2PNetwork.GetNodes: the element built for one member
\* (Resources is not set: its layer counts are zero)
MemberNode(id) ==
    [id |-> id, port |-> PortOf(id), status |-> "online", maxLayers |-> 0, usedLayers |-> 0]

NodeIDs(nodes) == {nodes[i].id : i \in 1..Len(nodes)}

\* the IDs a requester may list as known: the nodes and one that is no member
KnownIds == Nodes \cup {"zz"}
KnownLists == SeqsUpTo(KnownIds, MaxKnown)

\* the command names tried
Commands == {"status", "ping", "bogus", "", "Ping"}

NoCall == [op |-> "none", arg |-> <<>>]

\* a response; the fields a method does not set have their zero value
Response(nodes, success, text, error, code, clusterId) ==
    [nodes |-> nodes, success |-> success, text |-> text, error |-> error,
     code |-> code, clusterId |-> clusterId, metrics |-> <<>>, resources |-> <<>>,
     err |-> "nil"]

NoResponse == Response(<<>>, FALSE, <<>>, <<>>, 0, "")

InitRpc ==
    /\ srvNodes = <<>>
    /\ rpcCall = NoCall
    /\ rpcResp = NoResponse

\* the conversion of a models.Node to a pb.NodeInfo that every handler repeats
ToNodeInfo(node) ==
    [nodeId |-> node.id, port |-> Int32(node.port), status |-> node.status,
     maxLayers |-> node.maxLayers, usedLayers |-> node.usedLayers]

ToNodeInfos(nodes) == [i \in 1..Len(nodes) |-> ToNodeInfo(nodes[i])]

\* DiscoverNodes as it would be if only the first known ID were compared
DiscoverNodes_FirstKnownOnly(nodes, known) ==
    LET isKnown(node) == Len(known) > 0 /\ known[1] = node.id
    IN Response(ToNodeInfos(SelectSeq(nodes, LAMBDA node : ~isKnown(node))),
                TRUE, <<"Discovered new nodes">>, <<>>, 0, "")

\* DiscoveryServer.DiscoverNodes: the nodes in the order of GetNodes, without
\* those whose ID equals an element of req.KnownNodes
DiscoverNodes(nodes, known) ==
    LET isKnown(node) == \E i \in 1..Len(known) : known[i] = node.id
    IN Response(ToNodeInfos(SelectSeq(nodes, LAMBDA node : ~isKnown(node))),
                TRUE, <<"Discovered new nodes">>, <<>>, 0, "")

\* NodeServer.RegisterNode
RegisterNode(nodeId) ==
    Response(<<>>, TRUE, <<"Node registered successfully">>, <<>>, 0, "")

\* DiscoveryServer.RegisterWithCluster
RegisterWithCluster(nodes, nodeId) ==
    Response(ToNodeInfos(nodes), TRUE, <<"Successfully joined cluster">>, <<>>, 0,
             "distributed-llm-cluster")

\* DiscoveryServer.LeaveCluster
LeaveCluster(nodeId) ==
    Response(<<>>, TRUE, <<"Successfully left cluster">>, <<>>, 0, "")

\* the members after LeaveCluster as they would be if the call removed the
\* node that leaves
MembersAfterLeave_Removes(nodes, nodeId) ==
    SelectSeq(nodes, LAMBDA node : node.id # nodeId)

\* the members after LeaveCluster: the handler only logs and acknowledges
MembersAfterLeave(nodes, nodeId) == nodes

\* GetClusterInfo: totalLayers += node.Resources.MaxLayers over the nodes, in
\* int32 arithmetic
RECURSIVE TotalLayers(_)
TotalLayers(nodes) ==
    IF nodes = <<>> THEN 0
    ELSE Int32(TotalLayers(SubSeq(nodes, 1, Len(nodes) - 1)) + nodes[Len(nodes)].maxLayers)

\* GetClusterInfo: allocatedLayers += node.Resources.UsedLayers
RECURSIVE AllocatedLayers(_)
AllocatedLayers(nodes) ==
    IF nodes = <<>> THEN 0
    ELSE Int32(AllocatedLayers(SubSeq(nodes, 1, Len(nodes) - 1)) + nodes[Len(nodes)].usedLayers)

\* the healthy count as it would be if it counted the nodes that are not online
HealthyNodes_NotOnline(nodes) ==
    Cardinality({i \in 1..Len(nodes) : nodes[i].status # "online"})

\* GetClusterInfo: healthyNodes++ for every node with Status == NodeStatusOnline
HealthyNodes(nodes) ==
    Cardinality({i \in 1..Len(nodes) : nodes[i].status = "online"})

\* GetClusterInfo: float32(allocatedLayers) / float32(totalLayers) * 100.0 as
\* the fraction num / den it approximates, 0 unless totalLayers > 0
Utilization(allocated, total) ==
    IF total > 0 THEN [num |-> allocated * 100, den |-> total] ELSE [num |-> 0, den |-> 1]

\* GetClusterInfo: the pb.ClusterMetrics
ClusterMetrics(nodes) ==
    [totalNodes |-> Int32(Len(nodes)),
     healthyNodes |-> HealthyNodes(nodes),
     totalLayers |-> TotalLayers(nodes),
     allocatedLayers |-> AllocatedLayers(nodes),
     clusterUtilization |-> Utilization(AllocatedLayers(nodes), TotalLayers(nodes))]

\* DiscoveryServer.GetClusterInfo
GetClusterInfo(nodes) ==
    [clusterId |-> "distributed-llm-cluster",
     nodes |-> ToNodeInfos(nodes),
     metrics |-> ClusterMetrics(nodes)]

\* ExecuteCommand as it would be if an unknown command failed the RPC
ExecuteCommand_UnknownFailsRpc(command) ==
    IF command = "status"
      THEN Response(<<>>, TRUE, <<"Cluster is running normally">>, <<>>, 0, "")
    ELSE IF command = "ping"
      THEN Response(<<>>, TRUE, <<"pong">>, <<>>, 0, "")
    ELSE [NoResponse EXCEPT !.err = "unknown command"]

\* TUIServer.ExecuteCommand: the switch over req.Command
ExecuteCommand(command) ==
    IF command = "status"
      THEN Response(<<>>, TRUE, <<"Cluster is running normally">>, <<>>, 0, "")
    ELSE IF command = "ping"
      THEN Response(<<>>, TRUE, <<"pong">>, <<>>, 0, "")
    ELSE Response(<<>>, FALSE, <<>>, <<"Unknown command: ", command>>, 1, "")

DiscoverNodesCall(known) ==
    /\ rpcCall' = [op |-> "DiscoverNodes", arg |-> known]
    /\ rpcResp' = DiscoverNodes(srvNodes, known)
    /\ UNCHANGED <<srvNodes, bVars, dVars, mVars, nVars, qVars, sVars, vVars, pVars>>

RegisterNodeCall(nodeId) ==
    /\ rpcCall' = [op |-> "RegisterNode", arg |-> <<nodeId>>]
    /\ rpcResp' = RegisterNode(nodeId)
    /\ UNCHANGED <<srvNodes, bVars, dVars, mVars, nVars, qVars, sVars, vVars, pVars>>

RegisterWithClusterCall(nodeId) ==
    /\ rpcCall' = [op |-> "RegisterWithCluster", arg |-> <<nodeId>>]
    /\ rpcResp' = RegisterWithCluster(srvNodes, nodeId)
    /\ UNCHANGED <<srvNodes, bVars, dVars, mVars, nVars, qVars, sVars, vVars, pVars>>

LeaveClusterCall(nodeId) ==
    /\ rpcCall' = [op |-> "LeaveCluster", arg |-> <<nodeId>>]
    /\ rpcResp' = LeaveCluster(nodeId)
    /\ srvNodes' = MembersAfterLeave(srvNodes, nodeId)
    /\ UNCHANGED <<bVars, dVars, mVars, nVars, qVars, sVars, vVars, pVars>>

ExecuteCommandCall(command) ==
    /\ rpcCall' = [op |-> "ExecuteCommand", arg |-> <<command>>]
    /\ rpcResp' = ExecuteCommand(command)
    /\ UNCHANGED <<srvNodes, bVars, dVars, mVars, nVars, qVars, sVars, vVars, pVars>>

\* P2PNetwork.Start on the server's node: the memberlist holds the local node
NetworkStarts ==
    /\ srvNodes = <<>>
    /\ srvNodes' = <<MemberNode(Self)>>
    /\ UNCHANGED <<rpcCall, rpcResp, bVars, dVars, mVars, nVars, qVars, sVars, vVars, pVars>>

\* the memberlist learns of a node (EventDelegate.NotifyJoin); the library
\* keeps its list in an order of its own
NodeJoins(id) ==
    /\ srvNodes # <<>>
    /\ id \notin NodeIDs(srvNodes)
    /\ \E k \in 0..Len(srvNodes) :
          srvNodes' = SubSeq(srvNodes, 1, k) \o <<MemberNode(id)>>
                        \o SubSeq(srvNodes, k + 1, Len(srvNodes))
    /\ UNCHANGED <<rpcCall, rpcResp, bVars, dVars, mVars, nVars, qVars, sVars, vVars, pVars>>

\* the memberlist drops a node (EventDelegate.NotifyLeave)
NodeLeaves(id) ==
    /\ id # Self
    /\ id \in NodeIDs(srvNodes)
    /\ srvNodes' = SelectSeq(srvNodes, LAMBDA node : node.id # id)
    /\ UNCHANGED <<rpcCall, rpcResp, bVars, dVars, mVars, nVars, qVars, sVars, vVars, pVars>>

-----------------------------------------------------------------------------
(* package network: the streaming RPCs *)

\* One call of TUIServer.StreamUpdates or of NodeServer.StreamMetrics is
\* followed from the request to the return. Time is counted in seconds: the
\* ticker of interval d puts a tick into ticker.C (capacity one) at every
\* multiple of d and drops it when the last one has not been taken.
\* stream.Send is gRPC's: it fails once the stream's context is done, and the
\* message is encoded while Send runs.

\* req.UpdateTypes: the three types the switch knows and one it does not
UpdateTypes == {"nodes", "models", "metrics", "bogus"}
TypeLists == SeqsUpTo(UpdateTypes, MaxTypes)

\* req.IntervalSeconds
IntervalSecs == {0 - 1, 0, 1, 2}

NoStream == [method |-> "none", types |-> <<>>, intervalSeconds |-> 0]

\* &pb.ClusterUpdate{Timestamp: ...}: no type, no payload
NewUpdate == [updateType |-> "", payload |-> {}]

\* no streaming call; NewP2PNetwork leaves metricsCollector nil
InitStreams ==
    /\ metricsCollector = FALSE
    /\ stReq = NoStream
    /\ stInterval = 0
    /\ stPc = "idle"
    /\ stI = 0
    /\ stUpdate = NewUpdate
    /\ stOut = <<>>
    /\ stTicks = 0
    /\ stClock = 0
    /\ stTickReady = FALSE
    /\ stCancelled = FALSE
    /\ stErr = "none"

\* P2PNetwork.SetMetricsCollector with a collector
SetMetricsCollector ==
    /\ ~metricsCollector
    /\ metricsCollector' = TRUE
    /\ vAccess' = {Access("P2PNetwork.metricsCollector", "write", "none")}
    /\ UNCHANGED <<stReq, stInterval, stPc, stI, stUpdate, stOut, stTicks, stClock,
                   stTickReady, stCancelled, stErr, bVars, dVars, mVars, nVars, qVars, rVars,
                   vResources, vNodes, vListeners, vCollector, vGpu, vChan, vHeld,
                   vCall, vReports, vCalls, pVars>>

\* StreamUpdates: the ticker's interval, five seconds when less than one
\* second was asked for
UpdatesInterval(seconds) == IF seconds < 1 THEN 5 ELSE seconds

\* StreamMetrics: the ticker's interval, one second when less was asked for
MetricsInterval(seconds) == IF seconds < 1 THEN 1 ELSE seconds

\* StreamUpdates up to the loop
StreamUpdatesStart(types, seconds) ==
    /\ stPc = "idle"
    /\ stReq' = [method |-> "StreamUpdates", types |-> types, intervalSeconds |-> seconds]
    /\ stInterval' = UpdatesInterval(seconds)
    /\ stPc' = "select"
    /\ UNCHANGED <<metricsCollector, stI, stUpdate, stOut, stTicks, stClock, stTickReady,
                   stCancelled, stErr, bVars, dVars, mVars, nVars, qVars, rVars, vVars, pVars>>

\* StreamMetrics up to the loop
StreamMetricsStart(seconds) ==
    /\ stPc = "idle"
    /\ stReq' = [method |-> "StreamMetrics", types |-> <<>>, intervalSeconds |-> seconds]
    /\ stInterval' = MetricsInterval(seconds)
    /\ stPc' = "select"
    /\ UNCHANGED <<metricsCollector, stI, stUpdate, stOut, stTicks, stClock, stTickReady,
                   stCancelled, stErr, bVars, dVars, mVars, nVars, qVars, rVars, vVars, pVars>>

\* a second passes while the ticker runs
SecondPasses ==
    /\ stPc \in {"select", "send"}
    /\ stClock < MaxTime
    /\ stClock' = stClock + 1
    /\ stTickReady' = (stTickReady \/ (stClock + 1) % stInterval = 0)
    /\ UNCHANGED <<metricsCollector, stReq, stInterval, stPc, stI, stUpdate, stOut, stTicks,
                   stCancelled, stErr, bVars, dVars, mVars, nVars, qVars, rVars, vVars, pVars>>

\* the caller cancels the call
CallerCancels ==
    /\ stPc \in {"select", "send"}
    /\ ~stCancelled
    /\ stCancelled' = TRUE
    /\ UNCHANGED <<metricsCollector, stReq, stInterval, stPc, stI, stUpdate, stOut, stTicks,
                   stClock, stTickReady, stErr, bVars, dVars, mVars, nVars, qVars, rVars, vVars,
                   pVars>>

\* case <-stream.Context().Done(): return stream.Context().Err()
StreamReturnsOnDone ==
    /\ stPc = "select"
    /\ stCancelled
    /\ stPc' = "returned"
    /\ stErr' = "context canceled"
    /\ UNCHANGED <<metricsCollector, stReq, stInterval, stI, stUpdate, stOut, stTicks,
                   stClock, stTickReady, stCancelled, bVars, dVars, mVars, nVars, qVars, rVars, vVars,
                   pVars>>

\* StreamUpdates, case <-ticker.C: a new ClusterUpdate, then the loop over
\* req.UpdateTypes
StreamUpdatesTick ==
    /\ stPc = "select"
    /\ stReq.method = "StreamUpdates"
    /\ stTickReady
    /\ stTickReady' = FALSE
    /\ stTicks' = stTicks + 1
    /\ stUpdate' = NewUpdate
    /\ stOut' = <<>>
    /\ IF stReq.types = <<>>
         THEN stPc' = "select" /\ stI' = 0
         ELSE stPc' = "send" /\ stI' = 1
    /\ UNCHANGED <<metricsCollector, stReq, stInterval, stClock, stCancelled, stErr,
                   bVars, dVars, mVars, nVars, qVars, rVars, vVars, pVars>>

\* switch updateType: a known type sets update.UpdateType and its own payload
\* field of the one ClusterUpdate of this tick (GetNodeList, GetModelList and
\* GetClusterInfo return no error); any other type changes nothing
Filled(update, updateType) ==
    IF updateType \in {"nodes", "models", "metrics"}
      THEN [updateType |-> updateType, payload |-> update.payload \cup {updateType}]
      ELSE update

\* whether the loop sends after the switch, as it would be if it sent only
\* for the types the switch knows
SendsFor_KnownOnly(updateType) == updateType \in {"nodes", "models", "metrics"}

\* whether the loop sends after the switch: stream.Send(update) follows the
\* switch for every element of req.UpdateTypes
SendsFor(updateType) == TRUE

\* StreamUpdates, one round of the loop over req.UpdateTypes: the switch, then
\* stream.Send(update), whose error ends the call
StreamUpdatesSend ==
    /\ stPc = "send"
    /\ LET updateType == stReq.types[stI]
           update == Filled(stUpdate, updateType)
           last == stI = Len(stReq.types)
       IN /\ stUpdate' = update
          /\ IF SendsFor(updateType) /\ stCancelled
               THEN /\ stPc' = "returned"
                    /\ stErr' = "send failed"
                    /\ UNCHANGED <<stOut, stI>>
               ELSE /\ stOut' = IF SendsFor(updateType) THEN Append(stOut, update) ELSE stOut
                    /\ stPc' = IF last THEN "select" ELSE "send"
                    /\ stI' = IF last THEN 0 ELSE stI + 1
                    /\ UNCHANGED stErr
    /\ UNCHANGED <<metricsCollector, stReq, stInterval, stTicks, stClock, stTickReady,
                   stCancelled, bVars, dVars, mVars, nVars, qVars, rVars, vVars, pVars>>

\* NodeServer.GetMetrics: an error without a metrics collector, else the
\* metrics
GetMetrics == IF metricsCollector THEN <<"metrics">> ELSE <<>>

\* StreamMetrics, case <-ticker.C: GetMetrics, "continue" on its error, else
\* stream.Send of one MetricsUpdate, whose error ends the call
StreamMetricsTick ==
    /\ stPc = "select"
    /\ stReq.method = "StreamMetrics"
    /\ stTickReady
    /\ stTickReady' = FALSE
    /\ stTicks' = stTicks + 1
    /\ IF GetMetrics = <<>>
         THEN stOut' = <<>> /\ UNCHANGED <<stPc, stErr>>
         ELSE IF stCancelled
                THEN stPc' = "returned" /\ stErr' = "send failed" /\ stOut' = <<>>
                ELSE stOut' = <<[updateType |-> "metrics", payload |-> {"metrics"}]>>
                     /\ UNCHANGED <<stPc, stErr>>
    /\ UNCHANGED <<metricsCollector, stReq, stInterval, stI, stUpdate, stClock, stCancelled,
                   bVars, dVars, mVars, nVars, qVars, rVars, vVars, pVars>>

-----------------------------------------------------------------------------
(* package network: the unary RPCs that report membership and metrics *)

\* TUIServer.GetNodeList: the nodes, and the metrics of GetClusterInfo when
\* req.IncludeMetrics is set
GetNodeList(nodes, includeMetrics) ==
    [Response(ToNodeInfos(nodes), FALSE, <<>>, <<>>, 0, "") EXCEPT
        !.metrics = IF includeMetrics THEN <<GetClusterInfo(nodes).metrics>> ELSE <<>>]

\* GetPeers as it would be if it answered an empty membership with an error
GetPeers_ErrorWhenEmpty(nodes) ==
    IF nodes = <<>> THEN [NoResponse EXCEPT !.err = "no peers"]
    ELSE Response(ToNodeInfos(nodes), FALSE, <<>>, <<>>, 0, "")

\* NodeServer.GetPeers
GetPeers(nodes) == Response(ToNodeInfos(nodes), FALSE, <<>>, <<>>, 0, "")

GetClusterInfoCall ==
    /\ rpcCall' = [op |-> "GetClusterInfo", arg |-> <<>>]
    /\ rpcResp' = [Response(GetClusterInfo(srvNodes).nodes, FALSE, <<>>, <<>>, 0,
                            GetClusterInfo(srvNodes).clusterId)
                     EXCEPT !.metrics = <<GetClusterInfo(srvNodes).metrics>>]
    /\ UNCHANGED <<srvNodes, bVars, dVars, mVars, nVars, qVars, sVars, vVars, pVars>>

GetNodeListCall(includeMetrics) ==
    /\ rpcCall' = [op |-> "GetNodeList", arg |-> <<includeMetrics>>]
    /\ rpcResp' = GetNodeList(srvNodes, includeMetrics)
    /\ UNCHANGED <<srvNodes, bVars, dVars, mVars, nVars, qVars, sVars, vVars, pVars>>

GetPeersCall ==
    /\ rpcCall' = [op |-> "GetPeers", arg |-> <<>>]
    /\ rpcResp' = GetPeers(srvNodes)
    /\ UNCHANGED <<srvNodes, bVars, dVars, mVars, nVars, qVars, sVars, vVars, pVars>>

\* NodeServer.GetMetrics, the call: the error of GetMetrics is the RPC's
GetMetricsCall ==
    /\ rpcCall' = [op |-> "GetMetrics", arg |-> <<>>]
    /\ rpcResp' = IF GetMetrics = <<>>
                    THEN [NoResponse EXCEPT !.err = "metrics collector not available"]
                    ELSE [NoResponse EXCEPT !.text = GetMetrics]
    /\ UNCHANGED <<srvNodes, bVars, dVars, mVars, nVars, qVars, sVars, vVars, pVars>>

\* NodeServer.GetResources: a fixed answer
GetResources ==
    [cpuCores |-> 4, memoryMb |-> 8192, maxLayers |-> 10, usedLayers |-> 0,
     availableLayers |-> 8]

\* NodeServer.GetResources, the call
GetResourcesCall ==
    /\ rpcCall' = [op |-> "GetResources", arg |-> <<>>]
    /\ rpcResp' = [NoResponse EXCEPT !.resources = <<GetResources>>]
    /\ UNCHANGED <<srvNodes, bVars, dVars, mVars, nVars, qVars, sVars, vVars, pVars>>

(* package models: Node.IsHealthy and the wire form of ResourceInfo *)

\* NodeStatus: the three declared constants and the zero value
NodeStatuses == {"online", "offline", "busy", ""}
\* points in time, in minutes
Minutes == 0..MaxMinutes

\* 5*time.Minute
FiveMinutes == 5

\* time.Since(t) at the time now; a LastSeen ahead of the clock gives a
\* negative duration
Since(t, now) == now - t

\* Node.IsHealthy() with the greater-or-equal comparison
IsHealthy_UpToFive(n, now) ==
    n.status = "online" /\ Since(n.lastSeen, now) <= FiveMinutes

\* Node.IsHealthy()
IsHealthy(n, now) ==
    n.status = "online" /\ Since(n.lastSeen, now) < FiveMinutes

\* GPUInfo values and the GPU lists of a ResourceInfo
GpuInfos == { [name |-> "A100", memoryMb |-> 40960, uuid |-> "GPU-0"],
              [name |-> "T4", memoryMb |-> 16384, uuid |-> "GPU-1"] }
GpuLists == UNION { [1..n -> GpuInfos] : n \in 0..MaxGpus }

\* ResourceInfo values
ResourceInfos ==
    [cpuCores : {0, 8}, memoryMb : {0, 16384}, gpus : GpuLists,
     maxLayers : {0, 32}, usedLayers : {0, 8}]

\* the zero ResourceInfo
ZeroResourceInfo ==
    [cpuCores |-> 0, memoryMb |-> 0, gpus |-> <<>>, maxLayers |-> 0, usedLayers |-> 0]

\* ResourceInfo.ToProto(): one pb.GPUInfo per GPU, in order; UsedLayers has no
\* place in the message that is built
ToProto(r) ==
    [CpuCores |-> r.cpuCores,
     MemoryMb |-> r.memoryMb,
     Gpus |-> [i \in 1..Len(r.gpus) |->
                 [Name |-> r.gpus[i].name, MemoryMb |-> r.gpus[i].memoryMb,
                  Uuid |-> r.gpus[i].uuid]],
     MaxLayers |-> r.maxLayers]

\* ResourceInfoFromProto filling the GPU list from its end
ResourceInfoFromProto_Reversed(pbRes) ==
    [cpuCores |-> pbRes.CpuCores,
     memoryMb |-> pbRes.MemoryMb,
     gpus |-> [i \in 1..Len(pbRes.Gpus) |->
                 LET gpu == pbRes.Gpus[Len(pbRes.Gpus) + 1 - i]
                 IN [name |-> gpu.Name, memoryMb |-> gpu.MemoryMb, uuid |-> gpu.Uuid]],
     maxLayers |-> pbRes.MaxLayers,
     usedLayers |-> 0]

\* ResourceInfoFromProto(pbRes): one GPUInfo per pb.GPUInfo, in order; the
\* UsedLayers of the result keeps its zero value
ResourceInfoFromProto(pbRes) ==
    [cpuCores |-> pbRes.CpuCores,
     memoryMb |-> pbRes.MemoryMb,
     gpus |-> [i \in 1..Len(pbRes.Gpus) |->
                 LET gpu == pbRes.Gpus[i]
                 IN [name |-> gpu.Name, memoryMb |-> gpu.MemoryMb, uuid |-> gpu.Uuid]],
     maxLayers |-> pbRes.MaxLayers,
     usedLayers |-> 0]

\* a zero Node, nothing encoded yet
InitModels ==
    /\ pNode = [status |-> "", lastSeen |-> 0]
    /\ pNow = 0
    /\ pHealthy = FALSE
    /\ pResources = ZeroResourceInfo
    /\ pWire = <<>>
    /\ pDecoded = <<>>

\* node.IsHealthy() called on a Node at some time
IsHealthyCall ==
    /\ \E st \in NodeStatuses, seen \in Minutes, now \in Minutes :
          /\ pNode' = [status |-> st, lastSeen |-> seen]
          /\ pNow' = now
          /\ pHealthy' = IsHealthy([status |-> st, lastSeen |-> seen], now)
    /\ UNCHANGED <<pResources, pWire, pDecoded, bVars, dVars, mVars, nVars, qVars, rVars,
                   sVars, vVars>>

\* r.ToProto() called on a ResourceInfo
ToProtoCall ==
    /\ \E r \in ResourceInfos :
          /\ pResources' = r
          /\ pWire' = <<ToProto(r)>>
    /\ pDecoded' = <<>>
    /\ UNCHANGED <<pNode, pNow, pHealthy, bVars, dVars, mVars, nVars, qVars, rVars,
                   sVars, vVars>>

\* ResourceInfoFromProto called on the message ToProto built
FromProtoCall ==
    /\ pWire # <<>>
    /\ pDecoded' = <<ResourceInfoFromProto(pWire[1])>>
    /\ UNCHANGED <<pNode, pNow, pHealthy, pResources, pWire, bVars, dVars, mVars, nVars,
                   qVars, rVars, sVars, vVars>>

-----------------------------------------------------------------------------
(* Specifications *)

NextBroadcaster ==
    \/ \E t \in Callers, r \in 1..MaxRes : UpdateResources(t, r)
    \/ BroadcastTick
    \/ \E t \in BTasks : DeliverNext(t)
    \/ \E ch \in Chans : Subscribe(ch)
    \/ BStart
    \/ BCancel
    \/ TickerExit
    \/ \E ch \in Chans : Receive(ch)

InitB == InitBroadcaster /\ IdleDiscovery /\ InitMembership /\ IdleCreation /\ InitQueries
    /\ InitRpc /\ InitStreams /\ InitValues /\ InitModels

SpecBroadcaster == InitB /\ [][NextBroadcaster]_vars

\* A goroutine that can run is eventually run; nothing obliges a subscriber to
\* receive, a caller to call or the ticker to fire.
FairSpecBroadcaster ==
    SpecBroadcaster /\ \A t \in BTasks : WF_vars(DeliverNext(t))


NextDiscovery ==
    \/ DStart
    \/ RoundStart
    \/ LoopGetPeers
    \/ \E t \in DTasks : Probe(t)
    \/ \E t \in DTasks : Register(t)
    \/ \E t \in DTasks : Notify(t)
    \/ \E c \in ClientIds : Poll(c)
    \/ \E c \in ClientIds : MonUpdate(c)
    \/ \E c \in ClientIds : MonNotify(c)
    \/ \E c \in ClientIds : MonRemove(c)
    \/ DStop
    \/ \E a \in Addrs : ReachChange(a)
    \/ UIReceive

InitD == InitDiscovery /\ InitBroadcaster /\ InitMembership /\ IdleCreation /\ InitQueries
    /\ InitRpc /\ InitStreams /\ InitValues /\ InitModels

SpecDiscovery == InitD /\ [][NextDiscovery]_vars

\* Every goroutine of the discovery that can take its next step takes it: timers
\* fire and the scheduler runs what is runnable. Nothing obliges the user to
\* call Start or Stop, the agents to change, or the UI to receive.
FairSpecDiscovery ==
    /\ SpecDiscovery
    /\ WF_vars(RoundStart)
    /\ WF_vars(LoopGetPeers)
    /\ \A t \in DTasks : WF_vars(Probe(t)) /\ WF_vars(Register(t)) /\ WF_vars(Notify(t))
    /\ \A c \in ClientIds :
          WF_vars(Poll(c)) /\ WF_vars(MonUpdate(c)) /\ WF_vars(MonNotify(c))
             /\ WF_vars(MonRemove(c))


NextMembership ==
    \/ \E n \in Nodes, seeds \in SeedSets : MStart(n, seeds)
    \/ \E n \in Nodes : MStop(n)
    \/ \E i, j, k \in Nodes : Gossip(i, j, k)
    \/ \E i, k \in Nodes : FailureDetect(i, k)

InitM == InitMembership /\ InitBroadcaster /\ IdleDiscovery /\ IdleCreation /\ InitQueries
    /\ InitRpc /\ InitStreams /\ InitValues /\ InitModels

SpecMembership == InitM /\ [][NextMembership]_vars

\* The library's gossip and probe timers keep firing on a running node; nothing
\* obliges anybody to call Start or Stop.
FairSpecMembership ==
    /\ SpecMembership
    /\ \A i, j, k \in Nodes : WF_vars(Gossip(i, j, k))
    /\ \A i, k \in Nodes : WF_vars(FailureDetect(i, k))

\* The same with the gossip timer alone: nothing is assumed of the failure
\* detector.
FairSpecRestart ==
    /\ SpecMembership
    /\ \A i, j, k \in Nodes : WF_vars(Gossip(i, j, k))

NextCreation == Create

InitC == InitCreation /\ InitBroadcaster /\ IdleDiscovery /\ InitMembership /\ InitQueries
    /\ InitRpc /\ InitStreams /\ InitValues /\ InitModels

SpecCreation == InitC /\ [][NextCreation]_vars

NextQueries ==
    \/ QRegister
    \/ QRefresh
    \/ QRemove
    \/ QGetNodes
    \/ QGetClient
    \/ CallerSetsField
    \/ CallerSetsGpu
    \/ CallerClosesClient

InitQ == InitQueries /\ InitBroadcaster /\ IdleDiscovery /\ InitMembership /\ IdleCreation
    /\ InitRpc /\ InitStreams /\ InitValues /\ InitModels

SpecQueries == InitQ /\ [][NextQueries]_vars

NextRpc ==
    \/ \E known \in KnownLists : DiscoverNodesCall(known)
    \/ \E id \in KnownIds : RegisterNodeCall(id)
    \/ \E id \in KnownIds : RegisterWithClusterCall(id)
    \/ \E id \in KnownIds : LeaveClusterCall(id)
    \/ \E command \in Commands : ExecuteCommandCall(command)
    \/ GetClusterInfoCall
    \/ \E includeMetrics \in BOOLEAN : GetNodeListCall(includeMetrics)
    \/ GetPeersCall
    \/ GetMetricsCall
    \/ SetMetricsCollector
    \/ NetworkStarts
    \/ \E id \in Nodes : NodeJoins(id)
    \/ \E id \in Nodes : NodeLeaves(id)

InitR ==
    /\ InitRpc /\ InitStreams /\ InitBroadcaster /\ IdleDiscovery /\ InitMembership
    /\ IdleCreation /\ InitQueries /\ InitValues /\ InitModels

SpecRpc == InitR /\ [][NextRpc]_vars

\* the steps of the handler of the streaming call
StreamHandler ==
    \/ StreamReturnsOnDone
    \/ StreamUpdatesTick
    \/ StreamUpdatesSend
    \/ StreamMetricsTick

NextStreams ==
    \/ SetMetricsCollector
    \/ \E types \in TypeLists, seconds \in IntervalSecs : StreamUpdatesStart(types, seconds)
    \/ \E seconds \in IntervalSecs : StreamMetricsStart(seconds)
    \/ SecondPasses
    \/ CallerCancels
    \/ StreamHandler

InitS ==
    /\ InitStreams /\ InitRpc /\ InitBroadcaster /\ IdleDiscovery /\ InitMembership
    /\ IdleCreation /\ InitQueries /\ InitValues /\ InitModels

SpecStreams == InitS /\ [][NextStreams]_vars

\* the handler's goroutine runs whenever it can take a step
FairSpecStreams ==
    /\ SpecStreams
    /\ WF_vars(StreamReturnsOnDone)
    /\ WF_vars(StreamUpdatesTick)
    /\ WF_vars(StreamUpdatesSend)
    /\ WF_vars(StreamMetricsTick)

\* select takes one of its ready cases at random: with ctx.Done() ready at
\* every select, the ticker's goroutine cannot take ticker.C for ever
FairSpecBroadcasterStop ==
    FairSpecBroadcaster /\ SF_vars(TickerExit)

\* one goroutine calls the Broadcaster and the ticker's goroutine broadcasts;
\* the holders of the values handed out change them; the agent's server
\* answers GetResources
NextValues ==
    \/ \E r \in ResourceInputs : BUpdateResources("g1", r)
    \/ BUpdateResourcesSend("g1")
    \/ BGetResources
    \/ \E ch \in {"ch1"} : BSubscribe(ch)
    \/ \E node \in NodeInputs : BAddNode("g1", node)
    \/ BAddNodeReport("g1")
    \/ BGetNodes
    \/ BBroadcast
    \/ BBroadcastSend
    \/ BReceive
    \/ CallerSetsUsedLayers
    \/ CallerSetsGpuMemory
    \/ CallerRenamesNode
    \/ CallerSetsNodeGpuMemory
    \/ GetResourcesCall

InitV ==
    /\ InitValues /\ InitModels /\ InitRpc /\ InitStreams /\ InitBroadcaster /\ IdleDiscovery
    /\ InitMembership /\ IdleCreation /\ InitQueries

SpecValues == InitV /\ [][NextValues]_vars

\* goroutines call one Broadcaster concurrently, before and after it gets its
\* collector, while the ticker's goroutine broadcasts and the subscriber receives
NextReports ==
    \/ BSetMetricsCollector
    \/ \E t \in Goroutines : BUpdateResources(t, TestResources)
    \/ \E t \in Goroutines : BUpdateResourcesSend(t)
    \/ BGetResources
    \/ \E ch \in {"ch1"} : BSubscribe(ch)
    \/ \E t \in Goroutines : BAddNode(t, NodeOf(t))
    \/ \E t \in Goroutines : BAddNodeReport(t)
    \/ BGetNodes
    \/ BBroadcast
    \/ BBroadcastSend
    \/ BReceive

SpecReports == InitV /\ [][NextReports]_vars

\* package models alone: IsHealthy applied to the Nodes and times of the
\* bounded sets
InitP ==
    /\ InitModels /\ InitValues /\ InitRpc /\ InitStreams /\ InitBroadcaster
    /\ IdleDiscovery /\ InitMembership /\ IdleCreation /\ InitQueries

NextHealth == IsHealthyCall

SpecHealth == InitP /\ [][NextHealth]_vars

\* package models alone: a ResourceInfo of the bounded set is encoded and the
\* message decoded
NextWire ==
    \/ ToProtoCall
    \/ FromProtoCall

SpecWire == InitP /\ [][NextWire]_vars

\* the Broadcaster with two goroutines calling UpdateResources and one
\* subscriber whose channel has room for every value sent
NextOrder ==
    \/ \E t \in Goroutines, r \in ResourceInputs : BUpdateResources(t, r)
    \/ \E t \in Goroutines : BUpdateResourcesSend(t)
    \/ BSubscribe("ch10")
    \/ BReceive

SpecOrder == InitV /\ [][NextOrder]_vars

-----------------------------------------------------------------------------
(* Claims about the Broadcaster *)

\* C1: UpdateResources returns without blocking whatever the state of the
\* subscribed channels: a call that has entered its delivery loop always
\* comes back to its caller, also when channels are full and nobody receives.
C1_UpdateResourcesReturns ==
    \A t \in Callers : (bPc[t] = "send") ~> (bPc[t] = "idle")

\* C1 witness: a call has returned although it met a full channel
C1_Witness ==
    \E t \in Callers : bPc[t] = "idle" /\ bLoc[t].dropped

\* C2: a delivery (UpdateResources or tick) works on the full list of
\* subscribers and the snapshot of its moment; each select puts exactly one
\* copy into a channel with room and leaves a full channel as it is, touches
\* no other channel, and the loop ends only after the last subscriber.
C2_DeliveryPerSubscriber ==
    [][\A t \in BTasks :
         /\ (bPc[t] # "send" /\ bPc'[t] = "send") =>
                /\ bLoc'[t].listeners = bListeners
                /\ bLoc'[t].res = bResources'
                /\ bLoc'[t].i = 1
         /\ (bPc[t] = "send" /\ bLoc'[t] # bLoc[t]) =>
                LET loc == bLoc[t]
                    ch == loc.listeners[loc.i]
                IN /\ Len(chanBuf[ch]) < Cap(ch) =>
                          chanBuf'[ch] = Append(chanBuf[ch], loc.res)
                   /\ Len(chanBuf[ch]) >= Cap(ch) => chanBuf'[ch] = chanBuf[ch]
                   /\ \A o \in Chans \ {ch} : chanBuf'[o] = chanBuf[o]
                   /\ bPc'[t] # "send" => loc.i = Len(loc.listeners)
                   /\ bPc'[t] = "send" => bLoc'[t].i = loc.i + 1
      ]_vars

\* C2 witness: one delivery found a subscriber full and served a later one
C2_Witness ==
    \E t \in BTasks : bPc[t] = Rest(t) /\ bLoc[t].afterDrop


-----------------------------------------------------------------------------
(* Claims about Client Discovery *)

\* C3: when the poll of a registered agent fails, removeAgent deletes the
\* agent's node and client, closes the connection, and leaves the registry
\* readable, so that a GetNodes or GetClient called next returns and no longer
\* finds the agent.
C3_FailedPollRemovesAgent ==
    [][\A c \in ClientIds :
         (mPc[c] = "remove" /\ mPc'[c] # "remove" /\ dClients[cl[c].addr] = c) =>
            LET a == cl[c].addr IN
              /\ a \notin GetNodes'
              /\ GetClient(a)' = 0
              /\ cl'[c].st = "closed"
              /\ CanLock'
      ]_vars

\* a goroutine has changed the registry and has not yet offered the node list
OwesSnapshot ==
    \/ \E t \in DTasks : tPc[t] = "notify"
    \/ \E c \in ClientIds : mPc[c] \in {"notify", "stuck"}

\* C4: whoever has changed the registry (registration, refresh, removal) goes
\* on to offer the node list to the update channel without waiting: the read
\* lock notifyNodesUpdate asks for can be had.
C4_MutationIsNotified ==
    (dHasChan /\ OwesSnapshot) => CanLock

\* C5: Stop returns whenever it is called: in every state its write lock can
\* be taken, and when it returns both registries are empty.
C5_StopAlwaysReturns ==
    ENABLED DStop

AllDiscoveryTasksExited ==
    /\ \A t \in DTasks : tPc[t] \in {"off", "exited"}
    /\ \A c \in ClientIds : mPc[c] \in {"none", "exited"}

\* C6: once Stop has been called, the probing loops, the seed retry loops and
\* the health monitors all come to an end.
C6_TasksExitAfterStop ==
    (dStarted /\ dStopped) ~> AllDiscoveryTasksExited

\* C12: in the seed branch a configured seed that is reachable and stays
\* reachable is eventually registered (unless the discovery is stopped),
\* whatever happens to the other seeds.
C12_SeedEventuallyRegistered ==
    \A a \in Addrs :
        (dMode = "seed" /\ a \in dSeeds /\ ~dStopped /\ reach[a])
            ~> (a \in Registered \/ ~reach[a] \/ dStopped)

\* C13: in the seed branch, while one agent is registered and answers and
\* another agent of its cluster is up, the other agent is eventually
\* registered, under its own address or under the address the known agent
\* reports for it.
C13_RelayRegistersNewAgent ==
    \A a, b \in Addrs :
        (/\ a # b /\ dMode = "seed" /\ ~dStopped
         /\ a \in Registered /\ reach[a] /\ reach[b])
            ~> (\/ b \in Registered \/ GossipAddr(b) \in Registered
                \/ a \notin Registered \/ ~reach[a] \/ ~reach[b] \/ dStopped)

\* the strategies that have been activated: a retry loop of a static seed, and
\* the periodic loop by what it runs
RunningStrategies ==
    (IF \E a \in Addrs : tPc[a] # "off" THEN {"static seeds"} ELSE {})
    \cup
    (IF tPc[Loop] = "off" THEN {}
     ELSE IF dMode = "docker" THEN {"orchestrator names"}
     ELSE IF dMode = "k8s" THEN {"dns"}
     ELSE {"gossip relay"})

RegistryView ==
    [node |-> IF qNode.present THEN <<qNode.res, qGpu[qNode.gpus]>> ELSE <<>>,
     client |-> IF qClientRef = 0 THEN "none" ELSE qConn[qClientRef]]

\* what the caller reads in the element GetNodes gave it
ReturnedView ==
    IF qRetNode.kind = "none" \/ (qRetNode.kind = "ref" /\ ~qNode.present) THEN <<>>
    ELSE <<RetRes, qGpu[RetGpus]>>

CallerStep == CallerSetsField \/ CallerSetsGpu \/ CallerClosesClient
RegistryStep == QRegister \/ QRefresh \/ QRemove

-----------------------------------------------------------------------------
(* Claims about Membership *)

LifecycleMoves ==
    { <<"Created", "Joined">>, <<"Created", "Standalone">>,
      <<"Joined", "Stopped">>, <<"Standalone", "Stopped">> }

\* C7 as stated: an instance moves only along Created -> (Joined | Standalone)
\* -> Stopped, so that nothing, another Start included, takes it out of Stopped.
C7_NoWayBackFromStopped ==
    [][\A n \in Nodes :
         MState(n)' # MState(n) => <<MState(n), MState(n)'>> \in LifecycleMoves
      ]_vars

\* C7: an instance moves along Created -> (Joined | Standalone) -> Stopped;
\* Stop, gossip and the failure detector never take it out of Stopped, but a
\* Start on a stopped instance does: it creates a new memberlist and the
\* instance is Joined or Standalone again.
C7_LifecycleWithRestart ==
    [][\A n \in Nodes :
         /\ MState(n)' # MState(n) =>
               \/ <<MState(n), MState(n)'>> \in LifecycleMoves
               \/ /\ MState(n) = "Stopped"
                  /\ MState(n)' \in {"Joined", "Standalone"}
                  /\ \E seeds \in SeedSets : MStart(n, seeds)
         /\ \A seeds \in SeedSets :
               (MState(n) = "Stopped" /\ MStart(n, seeds)) =>
                   (mLast' = "start:ok" /\ MState(n)' \in {"Joined", "Standalone"})
      ]_vars

\* C7 witness: a stopped instance is running again
C7_Witness ==
    \E n \in Nodes : mStopped[n] /\ MState(n) \in {"Joined", "Standalone"}

\* C8: Stop can be called in every state of every instance (never started,
\* running, already stopped), and no call has panicked.
C8_StopIsSafe ==
    /\ ~mPanic
    /\ \A n \in Nodes : ENABLED MStop(n)

\* C8 witness: a Stop on an already stopped instance has returned while
\* another instance was never started
C8_Witness ==
    /\ mLast = "stop:shutdown"
    /\ \E n \in Nodes : ml[n] = "nil"

\* C9: a Start whose memberlist was created and whose seeds all failed to
\* answer returns nil and leaves the node running with itself as only member;
\* a node left alone in this way becomes a member of the cluster of any node
\* that later starts with its address as a seed, and the other way round.
C9_FailedJoinIsNotFatal ==
    [][\A n \in Nodes, seeds \in SeedSets :
         (ml[n] # "running" /\ MStart(n, seeds)) =>
            /\ JoinOutcome(n, seeds) = "failed" =>
                  /\ mLast' = "start:ok"
                  /\ ml'[n] = "running"
                  /\ GetMembers(n)' = {n}
                  /\ MState(n)' = "Standalone"
            /\ \A s \in seeds \ {n} :
                  (ml[s] = "running" /\ mJoin[s] = "failed") =>
                      (n \in GetMembers(s)' /\ s \in GetMembers(n)')
      ]_vars

\* C9 witness: a node whose join failed is running, and a node that joined
\* afterwards and it list each other
C9_Witness ==
    \E n, m \in Nodes :
        /\ m # n
        /\ ml[n] = "running" /\ mJoin[n] = "failed"
        /\ ml[m] = "running" /\ mJoin[m] = "peer"
        /\ m \in GetMembers(n) /\ n \in GetMembers(m)

Running == {n \in Nodes : ml[n] = "running"}

\* no node was stopped, and every running node but at most one (the first)
\* joined through a seed that is another running node
Formed ==
    /\ Running # {}
    /\ \A n \in Nodes : ~mStopped[n]
    /\ Cardinality({n \in Running : mJoin[n] # "peer"}) <= 1

Converged == \A n \in Running : Running \subseteq GetMembers(n)

\* C10: once the started nodes form one cluster, every member list comes to
\* contain every started node unless a node stops first, and member lists
\* that contain every started node keep doing so while the set of started
\* nodes stays as it is.
C10_EventualMembership ==
    /\ Formed ~> (Converged \/ ~Formed)
    /\ [][(Formed /\ Converged /\ Formed' /\ Running' = Running) => Converged']_vars

\* C10 witness: three nodes are running, none was stopped, and a gossip
\* message has just completed the member lists
C10_Witness ==
    /\ Running = Nodes
    /\ Formed /\ Converged
    /\ mLast = "gossip"

-----------------------------------------------------------------------------
(* Claims about the package network: creation and the RPC servers *)

\* the arguments the specification calls valid
ValidCreation(a) ==
    /\ Len(a.nodeID) > 0
    /\ \A i \in 1..Len(a.nodeID) : a.nodeID[i] \notin {"LF", "CR", "TAB"}
    /\ a.bindPort \in 1..65535
    /\ a.gossipPort \in 1..65535
    /\ a.bindPort # a.gossipPort

RespIDs(resp) == {resp.nodes[i].nodeId : i \in 1..Len(resp.nodes)}

\* the elements of a list
Elems(list) == {list[i] : i \in 1..Len(list)}

\* C16: DiscoverNodes(knownIds) returns exactly the nodes of the membership
\* snapshot at the time of the call whose ID is not in knownIds, each once:
\* none whose ID is in knownIds, and every member whose ID is not.
C16_DiscoverIsSetDifference ==
    [][\A known \in KnownLists :
          DiscoverNodesCall(known) =>
             /\ RespIDs(rpcResp') = NodeIDs(srvNodes) \ Elems(known)
             /\ Len(rpcResp'.nodes) = Cardinality(RespIDs(rpcResp'))
             /\ rpcResp'.success
             /\ rpcResp'.err = "nil"
      ]_vars

\* C16 witness: a call that named a member and a stranger as known on a
\* server with three members, answered with the two members not named
C16_Witness ==
    /\ rpcCall.op = "DiscoverNodes"
    /\ Len(srvNodes) = 3
    /\ Elems(rpcCall.arg) = {"n2", "zz"}
    /\ RespIDs(rpcResp) = {"n1", "n3"}

\* what the server reports of the membership: the node list, the answer of
\* DiscoverNodes to a requester that knows nobody or one ID, and the cluster
\* information
Reported ==
    [getNodes |-> ToNodeInfos(srvNodes),
     discoverNodes |-> [known \in SeqsUpTo(KnownIds, 1) |-> DiscoverNodes(srvNodes, known).nodes],
     getClusterInfo |-> GetClusterInfo(srvNodes)]

AckStep ==
    \E id \in KnownIds :
        RegisterNodeCall(id) \/ RegisterWithClusterCall(id) \/ LeaveClusterCall(id)

\* C17: RegisterNode, RegisterWithCluster and LeaveCluster answer with an
\* acknowledgement and leave the membership that GetNodes, DiscoverNodes and
\* GetClusterInfo report as it was.
C17_AcknowledgeOnly ==
    [][AckStep => /\ Reported' = Reported
                  /\ rpcResp'.success
                  /\ rpcResp'.err = "nil"
      ]_vars

\* C17 witness: LeaveCluster was called for a member other than the server's
\* node and acknowledged, and the node is still reported
C17_Witness ==
    /\ rpcCall = [op |-> "LeaveCluster", arg |-> <<"n2">>]
    /\ rpcResp.success
    /\ "n2" \in NodeIDs(srvNodes)
    /\ GetClusterInfo(srvNodes).metrics.totalNodes = 3

\* a string built of parts is empty when all its parts are
NonEmpty(text) == \E i \in 1..Len(text) : text[i] # ""

\* C20: ExecuteCommand answers status and ping with success and exit code 0
\* (ping with the output "pong"), and every other command name with a
\* response, not an RPC error, that has success false, a non-empty error and
\* exit code 1; no call changes the state of the server.
C20_ClosedCommandSet ==
    [][\A command \in Commands :
          ExecuteCommandCall(command) =>
             /\ rpcResp'.err = "nil"
             /\ command \in {"status", "ping"} =>
                   /\ rpcResp'.success
                   /\ rpcResp'.code = 0
                   /\ NonEmpty(rpcResp'.text)
                   /\ ~NonEmpty(rpcResp'.error)
             /\ command = "ping" => rpcResp'.text = <<"pong">>
             /\ command \notin {"status", "ping"} =>
                   /\ ~rpcResp'.success
                   /\ NonEmpty(rpcResp'.error)
                   /\ rpcResp'.code = 1
             /\ Reported' = Reported
             /\ sVars' = sVars
      ]_vars

\* C20 witness: a command that differs from ping only in case was answered
\* as unknown, on a started server
C20_Witness ==
    /\ rpcCall = [op |-> "ExecuteCommand", arg |-> <<"Ping">>]
    /\ rpcResp.code = 1
    /\ ~rpcResp.success
    /\ srvNodes # <<>>

\* the types the switch of StreamUpdates knows
KnownTypes == {"nodes", "models", "metrics"}

\* the messages sent for the first k update types, in request order
SentInOrder(k) ==
    /\ Len(stOut) = k
    /\ \A i \in 1..k :
          stReq.types[i] \in KnownTypes => stOut[i].updateType = stReq.types[i]

C18_PerTick ==
    stReq.method = "StreamUpdates" =>
       /\ (stPc = "select" /\ stTicks > 0) => SentInOrder(Len(stReq.types))
       /\ stPc = "send" => SentInOrder(stI - 1)
       /\ stPc = "returned" => stCancelled
       /\ (stPc = "select" /\ stTickReady) => ENABLED StreamUpdatesTick

\* C18: every tick StreamUpdates handles sends one message for each element
\* of the requested update types, in request order (a tick cut short by the
\* cancellation has sent the messages of a prefix); the call takes every tick
\* and returns only after the caller cancelled, and once the caller has
\* cancelled the call returns.
C18_OneMessagePerTypeUntilCancel ==
    /\ []C18_PerTick
    /\ (stReq.method = "StreamUpdates" /\ stCancelled) ~> (stPc = "returned")

\* C18 witness: a call for two different known types has handled a tick
\* completely, was cancelled and has returned
C18_Witness ==
    /\ stReq.method = "StreamUpdates"
    /\ stReq.types = <<"models", "nodes">>
    /\ Len(stOut) = 2
    /\ stCancelled
    /\ stPc = "returned"
    /\ stErr = "context canceled"

\* the interval C19 states: the requested one, one second if less was asked
StatedInterval == IF stReq.intervalSeconds < 1 THEN 1 ELSE stReq.intervalSeconds

\* C19 as stated: every tick StreamMetrics handles before the caller cancels
\* pushes one metrics update, the ticks come at the requested interval (one
\* second if less than a second was requested), the call returns only after
\* the caller cancelled, and once the caller has cancelled the call returns.
C19_OneMetricsUpdatePerTick ==
    /\ [][(StreamMetricsTick /\ ~stCancelled) => Len(stOut') = 1]_vars
    /\ [](stReq.method = "StreamMetrics" =>
             /\ stInterval = StatedInterval
             /\ stTicks * StatedInterval <= stClock
             /\ stPc = "returned" => stCancelled)
    /\ (stReq.method = "StreamMetrics" /\ stCancelled) ~> (stPc = "returned")


\* the layer counts in the resources of the agents on the nodes, those of
\* TestDiscoveryServer_GetClusterInfo
AgentLayers(id) ==
    IF id = "n1" THEN [maxLayers |-> 32, usedLayers |-> 16]
    ELSE IF id = "n2" THEN [maxLayers |-> 64, usedLayers |-> 0]
    ELSE [maxLayers |-> 0, usedLayers |-> 0]

\* sums over the agents of a set of nodes
MembersMaxLayers(ids) ==
    (IF "n1" \in ids THEN AgentLayers("n1").maxLayers ELSE 0)
      + (IF "n2" \in ids THEN AgentLayers("n2").maxLayers ELSE 0)
      + (IF "n3" \in ids THEN AgentLayers("n3").maxLayers ELSE 0)

MembersUsedLayers(ids) ==
    (IF "n1" \in ids THEN AgentLayers("n1").usedLayers ELSE 0)
      + (IF "n2" \in ids THEN AgentLayers("n2").usedLayers ELSE 0)
      + (IF "n3" \in ids THEN AgentLayers("n3").usedLayers ELSE 0)

\* C21 as stated: GetClusterInfo reports totalLayers and allocatedLayers as
\* the sums of the members' maxLayers and usedLayers, and clusterUtilization
\* as allocatedLayers / totalLayers * 100, 0 when totalLayers is 0; members
\* with (32, 16) and (64, 0) give 16/96*100.
C21_LayerSumsAndUtilization ==
    [][GetClusterInfoCall =>
          LET m == rpcResp'.metrics[1]
              total == MembersMaxLayers(NodeIDs(srvNodes))
              used == MembersUsedLayers(NodeIDs(srvNodes))
          IN /\ m.totalLayers = total
             /\ m.allocatedLayers = used
             /\ IF total = 0 THEN m.clusterUtilization.num = 0
                ELSE m.clusterUtilization.num * total = used * 100 * m.clusterUtilization.den
      ]_vars

MembershipCall ==
    \/ \E known \in KnownLists : DiscoverNodesCall(known)
    \/ GetClusterInfoCall
    \/ \E includeMetrics \in BOOLEAN : GetNodeListCall(includeMetrics)
    \/ GetPeersCall

\* the metrics of no nodes
ZeroMetrics ==
    [totalNodes |-> 0, healthyNodes |-> 0, totalLayers |-> 0, allocatedLayers |-> 0,
     clusterUtilization |-> [num |-> 0, den |-> 1]]

\* C24: while there is no memberlist GetMembers is empty, and while GetNodes
\* is empty DiscoverNodes, GetClusterInfo, GetNodeList and GetPeers answer
\* without an error, with an empty node list and, where they carry metrics,
\* with metrics that are all zero; DiscoverNodes reports success.
C24_EmptyMembershipIsNoError ==
    /\ [](\A n \in Nodes : ml[n] = "nil" => GetMembers(n) = {})
    /\ [][(srvNodes = <<>> /\ MembershipCall) =>
             /\ rpcResp'.err = "nil"
             /\ rpcResp'.nodes = <<>>
             /\ rpcCall'.op = "DiscoverNodes" => rpcResp'.success
             /\ rpcCall'.op = "GetClusterInfo" => rpcResp'.metrics = <<ZeroMetrics>>
             /\ rpcResp'.metrics \in {<<>>, <<ZeroMetrics>>}
         ]_vars

\* C24 witness: the node list with metrics was asked for before the network
\* was started, and came back empty with zero metrics
C24_Witness ==
    /\ srvNodes = <<>>
    /\ rpcCall = [op |-> "GetNodeList", arg |-> <<TRUE>>]
    /\ rpcResp.nodes = <<>>
    /\ rpcResp.metrics = <<ZeroMetrics>>
    /\ rpcResp.err = "nil"

\* C25 as stated: GetMetrics returns metrics and no error, with or without a
\* metrics collector.
C25_MetricsWithoutCollector ==
    [][GetMetricsCall => /\ rpcResp'.err = "nil"
                         /\ rpcResp'.text # <<>>
      ]_vars

-----------------------------------------------------------------------------
(* Claims about the Broadcaster: cancellation, values, node registry, metric reports *)

\* C26: once the context handed to Start is cancelled, the ticker's goroutine
\* leaves its loop (its deferred ticker.Stop() runs), and from then on it stays
\* out of the loop: no tick starts a broadcast and nothing is delivered to a
\* subscriber on the ticker's behalf.
C26_CancelStopsTheLoop ==
    /\ ctxCancelled ~> (bPc[Ticker] = "exited")
    /\ [][bPc[Ticker] = "exited"
            => /\ bPc'[Ticker] = "exited"
               /\ ~BroadcastTick
               /\ ~DeliverNext(Ticker)]_vars

C26_Witness ==
    /\ ctxCancelled
    /\ bPc[Ticker] = "exited"
    /\ bListeners # <<>>

\* C23: NodeServer.GetResources answers without error with the snapshot the
\* Broadcaster holds at the call, the value last set through UpdateResources,
\* and with an available capacity of that snapshot's maxLayers - usedLayers.
C23_ResourcesAreTheSnapshot ==
    [][GetResourcesCall =>
          /\ rpcResp'.err = "nil"
          /\ rpcResp'.resources # <<>>
          /\ rpcResp'.resources[1].maxLayers = vResources.maxLayers
          /\ rpcResp'.resources[1].usedLayers = vResources.usedLayers
          /\ rpcResp'.resources[1].availableLayers
                = vResources.maxLayers - vResources.usedLayers]_vars

\* a ResourceInfo as its holder reads it: the elements of its GPU list are
\* what the backing array holds
Seen(r, gpu) ==
    [maxLayers |-> r.maxLayers, usedLayers |-> r.usedLayers,
     gpus |-> IF r.gpus = 0 THEN <<>> ELSE <<gpu[r.gpus]>>]

SeenNode(node, gpu) ==
    [id |-> node.id, gpus |-> IF node.gpus = 0 THEN <<>> ELSE <<gpu[node.gpus]>>]

\* what the Broadcaster will return and deliver: its snapshot, its node list,
\* the values waiting in the channel and the copies its goroutines are
\* about to send
Handed(res, nodes, chan, call, gpu) ==
    [resources |-> Seen(res, gpu),
     nodes |-> [i \in 1..Len(nodes) |-> SeenNode(nodes[i], gpu)],
     queued |-> [i \in 1..Len(chan) |-> Seen(chan[i], gpu)],
     copies |-> [t \in VTasks |-> IF call[t].resources = <<>> THEN <<>>
                                  ELSE <<Seen(call[t].resources[1], gpu)>>]]

\* the holder of a value the Broadcaster handed out changes it
HolderStep ==
    \/ CallerSetsUsedLayers
    \/ CallerSetsGpuMemory
    \/ CallerRenamesNode
    \/ CallerSetsNodeGpuMemory

\* C27: whatever the holder of a ResourceInfo received from the channel or
\* returned by GetResources, or of a node list returned by GetNodes, assigns to
\* it, the elements of a GPU list included, what the Broadcaster returns and
\* delivers stays as it was.
C27_HandedOutValuesAreCopies ==
    [][HolderStep => Handed(vResources', vNodes', vChan', vCall', vGpu')
                       = Handed(vResources, vNodes, vChan, vCall, vGpu)]_vars

\* C28: no field shared between goroutines is read or written outside a
\* critical section of its owner's lock: the Broadcaster's snapshot, listeners,
\* nodes and collector under b.mu, and so the memberlist handle and the
\* collector of the P2PNetwork under a lock of the P2PNetwork.
C28_SharedStateUnderItsLock ==
    \A a \in vAccess : a.lock # "none"

\* every call of AddNode and UpdateResources has returned
AllReturned == \A t \in Goroutines : vCall[t] = NotCalling

\* C29: however the calls of the goroutines interleave, once they have all
\* returned the node list has one entry for each AddNode call, and the
\* collector has recorded one resource update for each UpdateResources call
\* made with the collector set; the node list never runs ahead of or behind
\* the AddNode calls that have passed their critical section.
C29_NoUpdateLost ==
    /\ Len(vNodes) = vCalls.addNode
    /\ AllReturned =>
          vReports.nodeResources = vCalls.updateResources - vCalls.uncollected

C29_Witness ==
    /\ AllReturned
    /\ vCalls.addNode = MaxCalls
    /\ vCalls.updateResources = MaxCalls
    /\ vCalls.uncollected = 0
    /\ vReports.nodeResources = MaxCalls
    /\ \E i, j \in 1..Len(vNodes) : vNodes[i].id = "node1" /\ vNodes[j].id = "node2"
    /\ vListeners # <<>>

\* a call in progress, without what it holds for the collector
Plain(call) == [op |-> call.op, resources |-> call.resources, listeners |-> call.listeners]
PlainCalls == [t \in VTasks |-> Plain(vCall[t])]

\* what a Broadcaster returns, delivers and keeps
PlainVars == <<vResources, vNodes, vListeners, vGpu, vChan, vHeld, PlainCalls>>

\* the steps of a Broadcaster that has no collector at all
PlainStep ==
    LET now == PlainCalls
        next == PlainCalls'
        idle == Plain(NotCalling)
    IN
    \/ \E t \in Goroutines :
          /\ now[t] = idle
          /\ vResources' \in ResourceInputs
          /\ next = [now EXCEPT ![t] = [op |-> "updateResources",
                                        resources |-> <<vResources'>>,
                                        listeners |-> vListeners]]
          /\ UNCHANGED <<vNodes, vListeners, vGpu, vChan, vHeld>>
    \/ /\ now[Ticker] = idle
       /\ next = [now EXCEPT ![Ticker] = [op |-> "broadcast", resources |-> <<vResources>>,
                                          listeners |-> vListeners]]
       /\ UNCHANGED <<vResources, vNodes, vListeners, vGpu, vChan, vHeld>>
    \/ \E t \in VTasks :
          /\ now[t].op \in {"updateResources", "broadcast"}
          /\ next = [now EXCEPT ![t] = idle]
          /\ vChan' = SendAll(vChan, now[t].listeners, now[t].resources[1])
          /\ UNCHANGED <<vResources, vNodes, vListeners, vGpu, vHeld>>
    \/ \E t \in Goroutines :
          /\ now[t] = idle
          /\ \E node \in NodeInputs : vNodes' = Append(vNodes, node)
          /\ next = [now EXCEPT ![t] = [idle EXCEPT !.op = "addNode"]]
          /\ UNCHANGED <<vResources, vListeners, vGpu, vChan, vHeld>>
    \/ \E t \in Goroutines :
          /\ now[t].op = "addNode"
          /\ next = [now EXCEPT ![t] = idle]
          /\ UNCHANGED <<vResources, vNodes, vListeners, vGpu, vChan, vHeld>>
    \/ /\ vHeld' = [resources |-> <<vResources>>, nodes |-> <<>>]
       /\ next = now
       /\ UNCHANGED <<vResources, vNodes, vListeners, vGpu, vChan>>
    \/ /\ vHeld' = [resources |-> <<>>, nodes |-> <<vNodes>>]
       /\ next = now
       /\ UNCHANGED <<vResources, vNodes, vListeners, vGpu, vChan>>
    \/ /\ \E ch \in Chans : vListeners' = Append(vListeners, ch)
       /\ next = now
       /\ UNCHANGED <<vResources, vNodes, vGpu, vChan, vHeld>>
    \/ /\ vChan # <<>>
       /\ vHeld' = [resources |-> <<Head(vChan)>>, nodes |-> <<>>]
       /\ vChan' = Tail(vChan)
       /\ next = now
       /\ UNCHANGED <<vResources, vNodes, vListeners, vGpu>>

\* C30: with a collector set or not, and whenever it is set, every step of the
\* Broadcaster changes the snapshot, the node list, the listeners, the values
\* delivered and the values returned as a Broadcaster without any collector
\* does; and while no call in progress has found a collector nothing is
\* reported.
C30_CollectorDoesNotMatter ==
    /\ [][PlainStep]_PlainVars
    /\ [][(\A t \in VTasks : ~vCall[t].collector) => vReports' = vReports]_vars

C30_Witness ==
    /\ vCollector
    /\ vReports.nodeResources > 0
    /\ vReports.connections > 0
    /\ vReports.message = "outgoing resource_broadcast"
    /\ vCalls.uncollected > 0
    /\ vChan # <<>>
    /\ vNodes # <<>>

-----------------------------------------------------------------------------
(* Claims about package models *)

\* C31: a Node is healthy exactly when its status is Online and the time since
\* it was last seen is strictly less than 5 minutes; a Node last seen 10
\* minutes ago is not healthy whatever its status.
C31_HealthyIffOnlineAndFresh ==
    /\ pHealthy <=> (pNode.status = "online" /\ pNow - pNode.lastSeen < 5)
    /\ pNow - pNode.lastSeen = 10 => ~pHealthy

\* an Online Node last seen 4 minutes ago was found healthy
C31_Witness ==
    /\ pNode.status = "online"
    /\ pNow - pNode.lastSeen = 4
    /\ pHealthy

\* the core fields of a ResourceInfo
CoreFields(r) ==
    [cpuCores |-> r.cpuCores, memoryMb |-> r.memoryMb, maxLayers |-> r.maxLayers,
     gpuCount |-> Len(r.gpus), gpus |-> r.gpus]

\* C32: a ResourceInfo encoded to its wire form and decoded back has the same
\* cpuCores, memoryMb and maxLayers and the same GPUs: as many, in the same
\* order, each with the same name, memory and UUID.
C32_RoundTripKeepsCoreFields ==
    pDecoded # <<>> =>
        /\ pWire = <<ToProto(pResources)>>
        /\ pDecoded[1].cpuCores = pResources.cpuCores
        /\ pDecoded[1].memoryMb = pResources.memoryMb
        /\ pDecoded[1].maxLayers = pResources.maxLayers
        /\ Len(pDecoded[1].gpus) = Len(pResources.gpus)
        /\ \A i \in 1..Len(pResources.gpus) :
              /\ pDecoded[1].gpus[i].name = pResources.gpus[i].name
              /\ pDecoded[1].gpus[i].memoryMb = pResources.gpus[i].memoryMb
              /\ pDecoded[1].gpus[i].uuid = pResources.gpus[i].uuid

\* a ResourceInfo with two different GPUs and layers in use went through the
\* wire form: the decoded value has the GPUs and no layers in use
C32_Witness ==
    /\ pDecoded # <<>>
    /\ Len(pResources.gpus) = 2
    /\ pResources.gpus[1] # pResources.gpus[2]
    /\ pResources.usedLayers = 8
    /\ pDecoded[1].usedLayers = 0
    /\ CoreFields(pDecoded[1]) = CoreFields(pResources)

-----------------------------------------------------------------------------
(* Claims about the streaming RPCs: the content of an update *)

\* C40 as stated: every message StreamUpdates sends is labelled with a
\* requested type the switch knows and carries the payload of that type and of
\* no other; an element of the requested types that the switch does not know
\* produces no message.
C40_OneTypePerMessage ==
    stReq.method = "StreamUpdates" =>
       /\ \A i \in 1..Len(stOut) :
             /\ stOut[i].updateType \in KnownTypes
             /\ \E j \in 1..Len(stReq.types) : stReq.types[j] = stOut[i].updateType
             /\ stOut[i].payload = {stOut[i].updateType}
       /\ (stPc = "select" /\ stTicks > 0) =>
             Len(stOut) = Cardinality({j \in 1..Len(stReq.types) : stReq.types[j] \in KnownTypes})

-----------------------------------------------------------------------------
(* Claims about the Broadcaster: the order of deliveries *)

\* C39 as stated: with UpdateResources called concurrently, a subscriber whose
\* channel never filled receives the values in the order in which they
\* replaced the snapshot, so once every call has returned and the subscriber
\* has taken everything off its channel, the last value it received is the
\* snapshot GetResources returns.
C39_LastReceivedIsTheSnapshot ==
    ( /\ \A t \in Goroutines : vCall[t] = NotCalling
      /\ vChan = <<>>
      /\ vHeld.resources # <<>> )
    => vHeld.resources[1] = vResources

-----------------------------------------------------------------------------
(* Claims about Membership: restart *)

\* one of two nodes has the other in its member list
Knows(i, j) == j \in mem[i] \/ i \in mem[j]

\* the nodes of R hang together through their member lists
OneCluster(R) ==
    \A S \in SUBSET R :
        (S # {} /\ S # R) => \E i \in S, j \in R \ S : Knows(i, j)

\* Start on a stopped node with a seed list that names a running node
RestartWithLiveSeed(n, seeds) ==
    /\ ml[n] = "shutdown"
    /\ \E s \in seeds \ {n} : ml[s] = "running"
    /\ MStart(n, seeds)

\* a node that was stopped runs again, joined through another node, and the
\* running nodes hang together
Rejoined ==
    /\ \E n \in Running : mStopped[n] /\ mJoin[n] = "peer"
    /\ OneCluster(Running)

-----------------------------------------------------------------------------
(* Claims about Client Discovery: reconnection, the lock, connections, Stop *)

\* the monitor of an agent's connection has removed the agent after a failed
\* poll and has returned
RemovedAfterFailedPoll(a) ==
    /\ a \notin Registered
    /\ \E c \in ClientIds : cl[c].addr = a /\ cl[c].st = "closed" /\ mPc[c] = "exited"

\* C34 as stated: in every discovery mode, an agent that was removed after a
\* failed health poll and is reachable again at the same address is
\* eventually registered again (unless it goes down again or the discovery is
\* stopped first).
C34_RemovedAgentReconnects ==
    \A a \in Addrs :
        (dStarted /\ ~dStopped /\ RemovedAfterFailedPoll(a) /\ reach[a])
            ~> (a \in Registered \/ ~reach[a] \/ dStopped)

\* C35 as stated: no task waits for ever for the registry lock: whoever holds
\* d.mu gives it back before it asks for it again, so between the steps of
\* the tasks the lock is free and no task is parked on it.
C35_LockIsAlwaysReleased ==
    /\ dMu = 0
    /\ \A c \in ClientIds : mPc[c] # "stuck"

\* the monitor goroutine of a Client is running
Monitoring(c) == mPc[c] \in {"wait", "update", "notify", "remove"}

\* a Client that tryConnectToAgent has dialled and not yet stored or dropped
InFlight(c) == \E t \in DTasks : tLoc[t].client = c

\* C36 as stated: each registered address has exactly one open connection and
\* exactly one running monitor, which polls the registered connection, and an
\* open connection that is not in the registry (and not about to be stored)
\* does not exist.
C36_OneConnectionOneMonitor ==
    /\ \A a \in Registered :
          /\ cl[dClients[a]].addr = a
          /\ cl[dClients[a]].st = "open"
          /\ {c \in ClientIds : cl[c].addr = a /\ Monitoring(c)} = {dClients[a]}
          /\ {c \in ClientIds : cl[c].addr = a /\ cl[c].st = "open" /\ ~InFlight(c)}
                = {dClients[a]}
    /\ \A c \in ClientIds :
          (cl[c].st = "open" /\ ~InFlight(c)) => dClients[cl[c].addr] = c

\* C37 as stated: once Stop has returned the registry stays empty: no client
\* and no node is registered and GetNodes lists nothing.
C37_EmptyAfterStop ==
    dStopped => (Registered = {} /\ GetNodes = {})

\* C38: the node map and the client map hold the same addresses in every
\* state, whatever registrations, refreshes, removals and Stops have happened
\* and however the goroutines interleave.
C38_SameAddressesInBothMaps ==
    {a \in AllAddrs : dNodes[a] # 0} = {a \in AllAddrs : dClients[a] # 0}

\* C38 witness: after a Stop, an agent is registered with both entries while
\* a monitor of an earlier connection has removed its agent and returned, and
\* another has a refresh to write
C38_Witness ==
    /\ dStopped
    /\ Registered # {}
    /\ GetNodes = Registered
    /\ \E c \in ClientIds : mPc[c] = "exited"
    /\ \E c \in ClientIds : mPc[c] = "update"

====
